---- MODULE Spec2Model ----
(***************************************************************************)
(* Position lifecycle and risk-management engine of src/tradingtr.js:      *)
(* opening (placeSpotTrade, placeFutureTrade), monitoring                  *)
(* (monitorActiveTrades), settlement and reallocation (handleTradeClosure) *)
(* and the signal check (checkPrices).                                     *)
(*                                                                         *)
(* JavaScript runs one segment of code at a time; a segment ends at an     *)
(* await.  Every action below is one such segment: the code from one       *)
(* suspension point to the next.                                           *)
(***************************************************************************)
EXTENDS Integers, Sequences, FiniteSets, TLC

(***************************************************************************)
(* Decimal arithmetic.  decimal.js values are kept as integers counting    *)
(* 1/Den; products and quotients round half away from zero as decimal.js   *)
(* does (ROUND_HALF_UP), at 4 places instead of 20 significant digits.     *)
(***************************************************************************)
Den == 10000

D(n) == n * Den

Abs(x) == IF x < 0 THEN 0 - x ELSE x

MulAbs(a, b) ==
  LET ah == a \div Den
      al == a % Den
      bh == b \div Den
      bl == b % Den
  IN  ah * bh * Den + ah * bl + al * bh + ((al * bl + (Den \div 2)) \div Den)

Mul(a, b) ==
  IF (a < 0) # (b < 0) THEN 0 - MulAbs(Abs(a), Abs(b)) ELSE MulAbs(Abs(a), Abs(b))

DivAbs(a, b) ==
  IF b % Den = 0
  THEN (a + ((b \div Den) \div 2)) \div (b \div Den)
  ELSE ((a \div b) * Den) + ((((a % b) * Den) + (b \div 2)) \div b)

Div(a, b) ==
  IF (a < 0) # (b < 0) THEN 0 - DivAbs(Abs(a), Abs(b)) ELSE DivAbs(Abs(a), Abs(b))

(***************************************************************************)
(* Trading parameters and configuration.                                   *)
(***************************************************************************)
stopLossPercentage == 15000         \* 1.5
takeProfitPercentage == D(6)
maxSpotDrawdownPercentage == D(2)
leverage == D(5)
defaultFuturesTakerFee == 4         \* 0.0004
defaultSpotTakerFee == 10           \* 0.001
TRADE_MODE == "fake"
TRADE_TYPE == "futures"
TRADE_AMOUNT_PERCENTAGE == 1000     \* 0.1
MIN_PROBABILITY == D(70)
MAX_PROBABILITY == D(80)
maxPeriod == 26
mutexTimeoutMs == 5000
dampeningWindowSec == 900
dampeningLimit == D(20)
dampeningPenalty == D(5)
defaultBaseProbability == D(75)
alpha == 1000                       \* 0.1

(***************************************************************************)
(* Bounds of the model and the inputs drawn from the environment.          *)
(***************************************************************************)
MaxSignals == 1      \* signals checkPrices accepts in a run
MaxApiCalls == 1     \* calls of the exported placeSpotTrade / placeFutureTrade in a run
MaxNow == 2          \* advances of the clock in a run
IdRand == 1          \* distinct random suffixes generateTradeId draws
MaxWaiting == 1      \* monitor passes queued on the mutex
NumCheckers == 1     \* checkPrices invocations in flight
MaxChecks == 1       \* timer-driven checkPrices invocations in a run
MaxRejections == 1   \* acquires rejected by the mutex timeout in a run
MaxRetryCount == 6   \* largest retryCount subscribeToLiveData is called with
MaxRetries == 4      \* largest number of retries retryOperation is called with
CycleChecks == 2     \* timer-driven checkPrices invocations in a run of SpecCycle
CycleSignals == 2    \* signals checkPrices accepts in a run of SpecCycle
OpensApiCalls == 2   \* calls of the exported placeFutureTrade in a run of SpecOpens

Prices == {4000, 20000, 22000}                \* 0.4, 2.0, 2.2
FeeInputs == {0, 4}                           \* taker rates the exchange reports
BalanceInputs == {D(10)}                      \* AVAX balances the exchange reports
ApiAmounts == {D(1), D(5)}
ApiPrices == {18000}
CandleCloses == {D(2)}
Modes == {"real", "fake"}
Directions == {"long", "short"}
Allocations == {"favorable", "unfavorable"}
Ctx == {"api", "mon"}

VARIABLES
  fakeBalanceInitialized, fakeBalance, realBalance, walletBalance,
  fakePnL, realPnL, spotPnL,
  activeTrades,     \* the Map, in insertion order: <<[id, uid]>>
  objs,             \* the trade objects ever created, by creation number (uid)
  historicalData,   \* [len, close]: length (saturating at maxPeriod) and last close
  now,              \* Date.now()
  cumulativeProbabilityChange, startTime,
  mutex,            \* [locked, waiting]
  mon,              \* the monitor pass that holds the mutex
  call,             \* placeSpotTrade / placeFutureTrade invocations suspended at an await
  cp,               \* checkPrices invocations
  tradeHistory,     \* the Trade collection: records written by Trade.create
  orders,           \* market orders submitted to the exchange
  signals,          \* signals checkPrices accepted so far (bounds the run)
  apiCalls,         \* calls of the exported open functions so far (bounds the run)
  acct,             \* per trade object: how it was opened and what was done with it
  checks,           \* timer-driven checkPrices invocations so far (bounds the run)
  probe,            \* the last call of calculateProbability: arguments and result
  decision,         \* the probability checkPrices last took to its gate
  rejections,       \* acquires of the mutex rejected by its timeout so far (bounds the run)
  feed,             \* the live-data WebSocket: [state, retryCount, backoffTime]
  retry             \* the retryOperation call in progress, and what it has done so far

ledger == <<fakeBalanceInitialized, fakeBalance, realBalance, walletBalance,
            fakePnL, realPnL, spotPnL>>

\* What only the signal check writes.
session == <<cumulativeProbabilityChange, startTime, probe, decision>>

vars == <<fakeBalanceInitialized, fakeBalance, realBalance, walletBalance,
          fakePnL, realPnL, spotPnL, activeTrades, objs, historicalData, now,
          cumulativeProbabilityChange, startTime,
          mutex, mon, call, cp, tradeHistory, orders, signals, apiCalls, acct, checks,
          probe, decision, rejections, feed, retry>>

(***************************************************************************)
(* The part of the state the opening and settlement code reads and writes, *)
(* as one record, so that calls made within one segment compose.           *)
(***************************************************************************)
World ==
  [fakeBalance |-> fakeBalance, realBalance |-> realBalance,
   walletBalance |-> walletBalance, fakePnL |-> fakePnL, realPnL |-> realPnL,
   spotPnL |-> spotPnL, activeTrades |-> activeTrades,
   objs |-> objs, acct |-> acct, orders |-> orders, now |-> now]

SetWorld(w) ==
  /\ fakeBalance' = w.fakeBalance
  /\ realBalance' = w.realBalance
  /\ walletBalance' = w.walletBalance
  /\ fakePnL' = w.fakePnL
  /\ realPnL' = w.realPnL
  /\ spotPnL' = w.spotPnL
  /\ activeTrades' = w.activeTrades
  /\ objs' = w.objs
  /\ acct' = w.acct
  /\ orders' = w.orders
  /\ now' = w.now

(***************************************************************************)
(* The clock.  Date.now() is read where a trade id is generated and where  *)
(* checkPrices measures the dampening window; how far the clock advanced   *)
(* since the last reading is drawn at the reading: not at all or by a      *)
(* millisecond where an id is generated, not at all or by a whole window   *)
(* where checkPrices starts its decision.                                  *)
(***************************************************************************)
windowMs == dampeningWindowSec * 1000

ClockBound(t) == (t \div windowMs) + (t % windowMs) <= MaxNow

IdClock == {t \in {now, now + 1} : ClockBound(t)}

WindowClock == {t \in {now, now + windowMs} : ClockBound(t)}

\* A second reading in the segment of a reading t.
NextClock(t) == {t2 \in {t, t + 1} : ClockBound(t2)}

(***************************************************************************)
(* activeTrades: a Map keeps insertion order; set on an existing key       *)
(* replaces the value in place; delete removes the entry.                  *)
(***************************************************************************)
KeyPos(at, id) ==
  IF \E k \in 1..Len(at) : at[k].id = id
  THEN CHOOSE k \in 1..Len(at) : at[k].id = id
  ELSE 0

MapSet(at, id, uid) ==
  IF KeyPos(at, id) = 0
  THEN Append(at, [id |-> id, uid |-> uid])
  ELSE [at EXCEPT ![KeyPos(at, id)] = [id |-> id, uid |-> uid]]

MapDelete(at, id) ==
  IF KeyPos(at, id) = 0
  THEN at
  ELSE SubSeq(at, 1, KeyPos(at, id) - 1) \o SubSeq(at, KeyPos(at, id) + 1, Len(at))

\* Date.now() and the random suffix.
generateTradeId(t, r) == <<t, r>>

(***************************************************************************)
(* placeSpotTrade / placeFutureTrade: fee, cost, check, debit, levels.     *)
(***************************************************************************)
EntryFee(entryPrice, amount, feeRate) == Mul(Mul(entryPrice, amount), feeRate)

FutureTotalCost(entryPrice, amount, type, feeRate) ==
  IF type = "real"
  THEN Div(Mul(entryPrice, amount), leverage) + EntryFee(entryPrice, amount, feeRate)
  ELSE Mul(entryPrice, amount) + EntryFee(entryPrice, amount, feeRate)

SpotTotalCost(entryPrice, amount, feeRate) ==
  Mul(entryPrice, amount) + EntryFee(entryPrice, amount, feeRate)

TotalCost(instr, entryPrice, amount, type, feeRate) ==
  IF instr = "spot"
  THEN SpotTotalCost(entryPrice, amount, feeRate)
  ELSE FutureTotalCost(entryPrice, amount, type, feeRate)

BalanceOf(w, type) == IF type = "real" THEN w.realBalance ELSE w.fakeBalance

\* A balance check on a balance read before the open was suspended, the balance
\* as the exchange last reported it (C39_AtomicCheckAndDebit must tell it from the
\* check of the code, which reads the balance in the segment that debits it).
InsufficientOnStaleBalance(w, type, totalCost) == \A b \in BalanceInputs : totalCost > b

\* A balance check that lets every open through (C6_InsufficientFundsNoMutation
\* must tell it from the check of the code).
NeverInsufficient(w, type, totalCost) == FALSE

Insufficient(w, type, totalCost) == totalCost > BalanceOf(w, type)

Debit(w, instr, type, amount, totalCost) ==
  LET w1 == IF type = "real"
            THEN [w EXCEPT !.realBalance = @ - totalCost]
            ELSE [w EXCEPT !.fakeBalance = @ - totalCost]
  IN  IF instr = "spot" THEN [w1 EXCEPT !.walletBalance = @ - amount] ELSE w1

FutureStopLoss(entryPrice, direction) ==
  IF direction = "long"
  THEN Mul(entryPrice, D(1) - Div(stopLossPercentage, D(100)))
  ELSE Mul(entryPrice, D(1) + Div(stopLossPercentage, D(100)))

FutureTakeProfit(entryPrice, direction) ==
  IF direction = "long"
  THEN Mul(entryPrice, D(1) + Div(takeProfitPercentage, D(100)))
  ELSE Mul(entryPrice, D(1) - Div(takeProfitPercentage, D(100)))

SpotStopLoss(entryPrice) == Mul(entryPrice, D(1) - Div(stopLossPercentage, D(100)))

SpotTakeProfit(entryPrice) == Mul(entryPrice, D(1) + Div(takeProfitPercentage, D(100)))

NewTrade(id, t, instr, entryPrice, amount, direction, type, allocation, feeRate) ==
  [id |-> id,
   entryPrice |-> entryPrice,
   amount |-> amount,
   stopLoss |-> IF instr = "spot" THEN SpotStopLoss(entryPrice)
                ELSE FutureStopLoss(entryPrice, direction),
   takeProfit |-> IF instr = "spot" THEN SpotTakeProfit(entryPrice)
                  ELSE FutureTakeProfit(entryPrice, direction),
   peakProfit |-> 0,
   peakPrice |-> entryPrice,
   type |-> type,
   tradeMode |-> type,
   direction |-> IF direction = "long" THEN "long" ELSE "short",
   startTime |-> t,
   leverage |-> IF instr = "futures" /\ type = "real" THEN leverage ELSE D(1),
   feeRate |-> feeRate,
   entryFee |-> EntryFee(entryPrice, amount, feeRate),
   allocation |-> IF instr = "spot" THEN "favorable" ELSE allocation,
   isReallocated |-> FALSE]

\* What the run records about a trade object when it is created.
NewAcct(instr, via, parent, totalCost) ==
  [instr |-> instr, via |-> via, parent |-> parent, debit |-> totalCost,
   closes |-> 0, reallocCalls |-> 0]

\* The trade object is created and activeTrades.set(trade.id, trade) is done.
Register(w, trade, instr, via, parent, totalCost) ==
  [w EXCEPT !.now = trade.startTime,
            !.objs = Append(@, trade),
            !.acct = Append(@, NewAcct(instr, via, parent, totalCost)),
            !.activeTrades = MapSet(@, trade.id, Len(w.objs) + 1)]

SubmitOrder(w, instr, type, direction) ==
  [w EXCEPT !.orders = @ \cup {[instr |-> instr, type |-> type,
                                side |-> IF direction = "long" THEN "BUY" ELSE "SELL"]}]

\* placeFutureTrade for type fake: no await is reached, the call is one segment.
PlaceFutureTradeFake(w, entryPrice, amount, direction, allocation, via, parent, t, r) ==
  LET totalCost == FutureTotalCost(entryPrice, amount, "fake", 0)
  IN  IF Insufficient(w, "fake", totalCost)
      THEN w
      ELSE Register(Debit(w, "futures", "fake", amount, totalCost),
                    NewTrade(generateTradeId(t, r), t, "futures", entryPrice, amount,
                             direction, "fake", allocation, 0),
                    "futures", via, parent, totalCost)

(***************************************************************************)
(* An invocation of placeSpotTrade or of placeFutureTrade (type real) is   *)
(* suspended first on the fee lookup, then (type real) on the order.       *)
(***************************************************************************)
NoCall ==
  [pc |-> "none", instr |-> "none", entryPrice |-> 0, amount |-> 0,
   direction |-> "none", type |-> "none", allocation |-> "none",
   feeRate |-> 0, totalCost |-> 0, via |-> "none", parent |-> 0]

StartCall(instr, entryPrice, amount, direction, type, allocation, via, parent) ==
  [pc |-> "fee", instr |-> instr, entryPrice |-> entryPrice, amount |-> amount,
   direction |-> direction, type |-> type, allocation |-> allocation,
   feeRate |-> 0, totalCost |-> 0, via |-> via, parent |-> parent]

\* getSpotTradingFee / getFuturesTradingFee: the taker rate, or the default when
\* the lookup failed after its retries.
FeeOutcomes == [ok : {TRUE}, rate : FeeInputs] \cup [ok : {FALSE}, rate : {0}]

\* A spot lookup that falls back on the futures default (C33_FeeLookupFallback
\* must tell it from the fallback of the code).
getSpotTradingFeeFuturesDefault(outcome) ==
  IF outcome.ok THEN outcome.rate ELSE defaultFuturesTakerFee

getSpotTradingFee(outcome) == IF outcome.ok THEN outcome.rate ELSE defaultSpotTakerFee

getFuturesTradingFee(outcome) == IF outcome.ok THEN outcome.rate ELSE defaultFuturesTakerFee

TradingFee(instr, outcome) ==
  IF instr = "spot" THEN getSpotTradingFee(outcome) ELSE getFuturesTradingFee(outcome)

\* trade.isReallocated = true
Reallocated(w, uid) ==
  [w EXCEPT !.objs = [@ EXCEPT ![uid] = [@ EXCEPT !.isReallocated = TRUE]]]

\* placeFutureTrade has returned to its caller: handleTradeClosure, for the
\* reallocation made inside a monitor pass, sets the flag and goes on to the
\* history write.
Returned(c, w) == IF c = "mon" THEN Reallocated(w, mon.cur) ELSE w

ResumeCaller(c) ==
  IF c = "mon" THEN mon' = [mon EXCEPT !.pc = "write"] ELSE UNCHANGED mon

\* An order gate that ignores the mode (C8_NoOrdersForFake must tell it from the
\* gate of the code).
OrderAlways(type) == TRUE

\* if (type === 'real'): only then a market order goes to the exchange.
OrderSubmitted(type) == type = "real"

\* From the fee lookup to the order submission (or to the end, when no order is sent).
PlaceAfterFee(w, f, feeRate, t, r) ==
  LET totalCost == TotalCost(f.instr, f.entryPrice, f.amount, f.type, feeRate)
      w1 == Debit(w, f.instr, f.type, f.amount, totalCost)
  IN  IF Insufficient(w, f.type, totalCost)
      THEN [w |-> w, f |-> NoCall]
      ELSE IF OrderSubmitted(f.type)
      THEN [w |-> SubmitOrder(w1, f.instr, f.type, f.direction),
            f |-> [f EXCEPT !.pc = "order", !.feeRate = feeRate, !.totalCost = totalCost]]
      ELSE [w |-> Register(w1,
                           NewTrade(generateTradeId(t, r), t, f.instr, f.entryPrice,
                                    f.amount, f.direction, f.type, f.allocation, feeRate),
                           f.instr, f.via, f.parent, totalCost),
            f |-> NoCall]

CallFeeReturns(c, outcome, t, r) ==
  /\ call[c].pc = "fee"
  /\ LET res == PlaceAfterFee(World, call[c], TradingFee(call[c].instr, outcome), t, r)
     IN  /\ SetWorld(IF res.f.pc = "none" THEN Returned(c, res.w) ELSE res.w)
         /\ call' = [call EXCEPT ![c] = res.f]
         /\ IF res.f.pc = "none" THEN ResumeCaller(c) ELSE UNCHANGED mon
  /\ UNCHANGED <<fakeBalanceInitialized, checks, historicalData, session,
                 mutex, cp, tradeHistory, signals, apiCalls, rejections, feed, retry>>

\* The order came back: the trade object is built and registered; or the order
\* failed after its retries and the catch block only logs.
PlaceAfterOrder(w, f, ok, t, r) ==
  IF ok
  THEN Register(w,
                NewTrade(generateTradeId(t, r), t, f.instr, f.entryPrice, f.amount,
                         f.direction, f.type, f.allocation, f.feeRate),
                f.instr, f.via, f.parent, f.totalCost)
  ELSE w

CallOrderReturns(c, ok, t, r) ==
  /\ call[c].pc = "order"
  /\ SetWorld(Returned(c, PlaceAfterOrder(World, call[c], ok, t, r)))
  /\ call' = [call EXCEPT ![c] = NoCall]
  /\ ResumeCaller(c)
  /\ UNCHANGED <<fakeBalanceInitialized, checks, historicalData, session,
                 mutex, cp, tradeHistory, signals, apiCalls, rejections, feed, retry>>

\* The exported entry points, called with arguments of the caller's choice (at
\* most maxApiCalls times in a run).
ApiPlaceFutureTradeWithin(maxApiCalls, entryPrice, amount, direction, type, allocation, t, r) ==
  /\ call["api"].pc = "none"
  /\ apiCalls < maxApiCalls
  /\ apiCalls' = apiCalls + 1
  /\ IF type = "real"
     THEN /\ call' = [call EXCEPT !["api"] =
                        StartCall("futures", entryPrice, amount, direction, type,
                                  allocation, "api", 0)]
          /\ SetWorld(World)
     ELSE /\ SetWorld(PlaceFutureTradeFake(World, entryPrice, amount, direction,
                                           allocation, "api", 0, t, r))
          /\ UNCHANGED call
  /\ UNCHANGED <<fakeBalanceInitialized, checks, historicalData, session,
                 mutex, mon, cp, tradeHistory, signals, rejections, feed, retry>>

ApiPlaceFutureTrade(entryPrice, amount, direction, type, allocation, t, r) ==
  ApiPlaceFutureTradeWithin(MaxApiCalls, entryPrice, amount, direction, type, allocation, t, r)

ApiPlaceSpotTrade(entryPrice, amount, type, direction) ==
  /\ call["api"].pc = "none"
  /\ apiCalls < MaxApiCalls
  /\ apiCalls' = apiCalls + 1
  /\ call' = [call EXCEPT !["api"] =
                StartCall("spot", entryPrice, amount, direction, type, "favorable", "api", 0)]
  /\ UNCHANGED <<ledger, activeTrades, objs, historicalData, now, session, mutex, mon, cp,
                 tradeHistory, orders, signals, acct, checks, rejections, feed, retry>>

(***************************************************************************)
(* subscribeToLiveData: the WebSocket of the live candles.  Each invocation *)
(* computes its backoffTime from the retryCount it is called with, opens a *)
(* socket, and on close schedules the next invocation with retryCount + 1.  *)
(***************************************************************************)
RECURSIVE Pow2(_)
Pow2(n) == IF n = 0 THEN 1 ELSE 2 * Pow2(n - 1)

backoffTime(retryCount) ==
  IF 1000 * Pow2(retryCount) < 30000 THEN 1000 * Pow2(retryCount) ELSE 30000

\* ws.on('open'): the local retryCount is reset; backoffTime stays as computed.
FeedOpen ==
  /\ feed.state = "connecting"
  /\ feed' = [feed EXCEPT !.state = "open", !.retryCount = 0]
  /\ UNCHANGED <<ledger, activeTrades, objs, historicalData, now, session, mutex, mon, call, cp,
                 tradeHistory, orders, signals, apiCalls, acct, checks, rejections, retry>>

\* ws.on('close') (an error closes the socket first): a timer is set for the next
\* invocation, after this invocation's backoffTime.
FeedClose ==
  /\ feed.state \in {"connecting", "open"}
  /\ feed' = [feed EXCEPT !.state = "waiting"]
  /\ UNCHANGED <<ledger, activeTrades, objs, historicalData, now, session, mutex, mon, call, cp,
                 tradeHistory, orders, signals, apiCalls, acct, checks, rejections, retry>>

\* The timer fires: subscribeToLiveData(symbol, interval, onCandleClose, retryCount + 1).
FeedReconnect ==
  /\ feed.state = "waiting"
  /\ feed.retryCount < MaxRetryCount
  /\ feed' = [state |-> "connecting", retryCount |-> feed.retryCount + 1,
              backoffTime |-> backoffTime(feed.retryCount + 1)]
  /\ UNCHANGED <<ledger, activeTrades, objs, historicalData, now, session, mutex, mon, call, cp,
                 tradeHistory, orders, signals, apiCalls, acct, checks, rejections, retry>>

(***************************************************************************)
(* monitorActiveTrades and handleTradeClosure.                             *)
(***************************************************************************)
MonIdle ==
  [pc |-> "idle", idx |-> 0, cur |-> 0, price |-> 0, feeRate |-> 0, netPnl |-> 0,
   branch |-> "none", atStart |-> {}]

\* The positions in the Map.
Positions(at) == {at[j].uid : j \in 1..Len(at)}

\* A pass that returns at the end of its loop without releasing the mutex
\* (C16_ReleasedOnEveryExit must tell it from the finally block of the code).
LoopKeepsMutex(at, idx) ==
  IF idx < Len(at)
  THEN [mon |-> [MonIdle EXCEPT !.pc = "price", !.idx = idx + 1, !.cur = at[idx + 1].uid,
                                !.atStart = mon.atStart],
        mutex |-> mutex]
  ELSE [mon |-> MonIdle, mutex |-> mutex]

\* The next step of the for-of loop over the Map: the entry after the last one
\* visited, or the end of the pass, where the finally block releases the mutex
\* and the mutex passes to a queued pass, if there is one.
Loop(at, idx) ==
  IF idx < Len(at)
  THEN [mon |-> [MonIdle EXCEPT !.pc = "price", !.idx = idx + 1, !.cur = at[idx + 1].uid,
                                !.atStart = mon.atStart],
        mutex |-> mutex]
  ELSE IF mutex.waiting > 0
  THEN [mon |-> [MonIdle EXCEPT !.pc = "start"],
        mutex |-> [locked |-> TRUE, waiting |-> mutex.waiting - 1]]
  ELSE [mon |-> MonIdle, mutex |-> [locked |-> FALSE, waiting |-> 0]]

SetLoop(at, idx) ==
  /\ mon' = Loop(at, idx).mon
  /\ mutex' = Loop(at, idx).mutex

Min(a, b) == IF a < b THEN a ELSE b

\* A mutex that admits every acquire at once (C15_OnePassAtATime must tell it from
\* the mutex of the code).
AcquirableAlways(m) == TRUE

\* activeTradesMutex.acquire() resolves at once only when nobody holds the mutex.
Acquirable(m) == ~m.locked

\* onLiveCandleClose: the candle is appended and a monitor pass is started; the
\* pass takes the mutex if it is free and queues on it otherwise.
onLiveCandleClose(close) ==
  /\ feed.state = "open"
  /\ historicalData' = [len |-> Min(historicalData.len + 1, maxPeriod), close |-> close]
  /\ IF Acquirable(mutex)
     THEN /\ mutex' = [mutex EXCEPT !.locked = TRUE]
          /\ mon' = [MonIdle EXCEPT !.pc = "start"]
     ELSE /\ mutex.waiting < MaxWaiting
          /\ mutex' = [mutex EXCEPT !.waiting = @ + 1]
          /\ UNCHANGED mon
  /\ UNCHANGED <<ledger, activeTrades, objs, now, session, call, cp, tradeHistory, orders, signals,
                 apiCalls, acct, checks, rejections, feed, retry>>

\* A rejected acquire after which the pass goes on into its loop all the same
\* (C17_AcquireTimeout must tell it from the pass of the code, which ends there).
AcquireTimeoutEntersLoop ==
  /\ mutex.waiting > 0
  /\ rejections < MaxRejections
  /\ rejections' = rejections + 1
  /\ mutex' = [mutex EXCEPT !.waiting = @ - 1]
  /\ mon' = [MonIdle EXCEPT !.pc = "start"]
  /\ UNCHANGED <<ledger, activeTrades, objs, historicalData, now, session, call, cp,
                 tradeHistory, orders, signals, apiCalls, acct, checks, feed, retry>>

\* withTimeout: a queued acquire is rejected after mutexTimeoutMs; the pass ends
\* there and onLiveCandleClose's catch logs it.
AcquireTimeout ==
  /\ mutex.waiting > 0
  /\ rejections < MaxRejections
  /\ rejections' = rejections + 1
  /\ mutex' = [mutex EXCEPT !.waiting = @ - 1]
  /\ UNCHANGED <<ledger, activeTrades, objs, historicalData, now, session, mon, call, cp,
                 tradeHistory, orders, signals, apiCalls, acct, checks, feed, retry>>

\* The loop of the pass begins.  atStart notes which positions the Map holds at
\* this moment; the code keeps no such copy, its for-of reads the Map itself.
MonStart ==
  /\ mon.pc = "start"
  /\ mon' = [Loop(activeTrades, 0).mon EXCEPT !.atStart = Positions(activeTrades)]
  /\ mutex' = Loop(activeTrades, 0).mutex
  /\ UNCHANGED <<ledger, activeTrades, objs, historicalData, now, session, call, cp, tradeHistory,
                 orders, signals, apiCalls, acct, checks, rejections, feed, retry>>

CurrentProfit(trade, currentPrice) ==
  IF trade.direction = "long"
  THEN Mul(Mul(currentPrice - trade.entryPrice, trade.amount), trade.leverage)
  ELSE Mul(Mul(trade.entryPrice - currentPrice, trade.amount), trade.leverage)

\* A peak update that does not compare (C10_PeakRatchet must tell it from the
\* comparison of the code).
AlwaysNewPeak(trade, currentPrice) == TRUE

NewPeak(trade, currentPrice) == CurrentProfit(trade, currentPrice) > trade.peakProfit

\* A peak update that also trails the stop behind the new peak (C11_FrameOfPosition
\* must tell it from the update of the code, which writes the two peak fields only).
UpdatePeakTrailsStop(trade, currentPrice) ==
  IF CurrentProfit(trade, currentPrice) > trade.peakProfit
  THEN [trade EXCEPT !.peakProfit = CurrentProfit(trade, currentPrice),
                     !.peakPrice = currentPrice,
                     !.stopLoss = currentPrice - (trade.entryPrice - trade.stopLoss)]
  ELSE trade

UpdatePeak(trade, currentPrice) ==
  IF NewPeak(trade, currentPrice)
  THEN [trade EXCEPT !.peakProfit = CurrentProfit(trade, currentPrice),
                     !.peakPrice = currentPrice]
  ELSE trade

MaxDrawdownPrice(trade) ==
  LET allowedDrawdown == Div(Mul(trade.peakPrice, maxSpotDrawdownPercentage), D(100))
  IN  IF trade.direction = "long"
      THEN trade.peakPrice - allowedDrawdown
      ELSE trade.peakPrice + allowedDrawdown

TakeProfitReached(trade, currentPrice) ==
  \/ trade.direction = "long" /\ currentPrice >= trade.takeProfit
  \/ trade.direction = "short" /\ currentPrice <= trade.takeProfit

StopLossHit(trade, currentPrice) ==
  \/ /\ trade.direction = "long"
     /\ (currentPrice <= MaxDrawdownPrice(trade) \/ currentPrice <= trade.stopLoss)
  \/ /\ trade.direction = "short"
     /\ (currentPrice >= MaxDrawdownPrice(trade) \/ currentPrice >= trade.stopLoss)

\* The two exit checks in the other order (C5_TakeProfitPrecedence must tell it
\* from the order of the code).
StopLossFirst(trade, currentPrice) ==
  IF StopLossHit(trade, currentPrice) THEN "sl"
  ELSE IF TakeProfitReached(trade, currentPrice) THEN "tp"
  ELSE "none"

\* The branch the loop body takes for the fetched price, after the peak update.
ExitBranch(trade, currentPrice) ==
  IF TakeProfitReached(trade, currentPrice) THEN "tp"
  ELSE IF StopLossHit(trade, currentPrice) THEN "sl"
  ELSE "none"

\* getAvaxPrice came back for the current entry: peak update, exit conditions,
\* and the call of handleTradeClosure, which suspends on its fee lookup.
\* mon.price keeps the price of the last successful fetch of the pass (0 after a
\* failed one).
\* A pass that gives up at the first failed price fetch (C34_ErrorIsolation must
\* tell it from the try/catch inside the loop of the code).
MonPriceFailureEndsPass(ok, currentPrice) ==
  /\ mon.pc = "price"
  /\ IF ~ok
     THEN /\ SetLoop(activeTrades, Len(activeTrades))
          /\ UNCHANGED objs
     ELSE LET trade == UpdatePeak(objs[mon.cur], currentPrice)
              branch == ExitBranch(trade, currentPrice)
          IN  /\ objs' = [objs EXCEPT ![mon.cur] = trade]
              /\ IF branch = "none"
                 THEN /\ mon' = [Loop(activeTrades, mon.idx).mon EXCEPT !.price = currentPrice]
                      /\ mutex' = Loop(activeTrades, mon.idx).mutex
                 ELSE /\ mon' = [mon EXCEPT !.pc = "fee", !.price = currentPrice,
                                            !.branch = branch]
                      /\ UNCHANGED mutex
  /\ UNCHANGED <<ledger, activeTrades, historicalData, now, session, call, cp, tradeHistory,
                 orders, signals, apiCalls, acct, checks, rejections, feed, retry>>

MonPrice(ok, currentPrice) ==
  /\ mon.pc = "price"
  /\ IF ~ok
     THEN /\ SetLoop(activeTrades, mon.idx)
          /\ UNCHANGED objs
     ELSE LET trade == UpdatePeak(objs[mon.cur], currentPrice)
              branch == ExitBranch(trade, currentPrice)
          IN  /\ objs' = [objs EXCEPT ![mon.cur] = trade]
              /\ IF branch = "none"
                 THEN /\ mon' = [Loop(activeTrades, mon.idx).mon EXCEPT !.price = currentPrice]
                      /\ mutex' = Loop(activeTrades, mon.idx).mutex
                 ELSE /\ mon' = [mon EXCEPT !.pc = "fee", !.price = currentPrice,
                                            !.branch = branch]
                      /\ UNCHANGED mutex
  /\ UNCHANGED <<ledger, activeTrades, historicalData, now, session, call, cp, tradeHistory,
                 orders, signals, apiCalls, acct, checks, rejections, feed, retry>>

\* An exit fee charged on the entry notional (C25_SpotScenario must tell it from
\* the fee of the code, which is charged on the notional at the closing price).
ExitFeeOnEntryNotional(trade, currentPrice, feeRate) ==
  Mul(Mul(trade.entryPrice, trade.amount), feeRate)

ExitFee(trade, currentPrice, feeRate) == Mul(Mul(currentPrice, trade.amount), feeRate)

GrossPnl(trade, currentPrice) ==
  IF trade.direction = "long"
  THEN Mul(Mul(currentPrice - trade.entryPrice, trade.amount), trade.leverage)
  ELSE Mul(Mul(trade.entryPrice - currentPrice, trade.amount), trade.leverage)

\* A net PnL that charges the entry fee again at the rate resolved at close
\* (C12_FeeAsymmetry must tell it from the stored entryFee the code subtracts).
NetPnlEntryFeeAtCloseRate(trade, currentPrice, feeRate) ==
  GrossPnl(trade, currentPrice)
    - Mul(Mul(trade.entryPrice, trade.amount), feeRate)
    - ExitFee(trade, currentPrice, feeRate)

NetPnl(trade, currentPrice, feeRate) ==
  GrossPnl(trade, currentPrice) - trade.entryFee - ExitFee(trade, currentPrice, feeRate)

\* A reallocation condition that forgets the isReallocated flag
\* (C4_ReallocationAtMostOne must tell it from the condition of the code).
ReallocateOnAnyLoss(trade, netPnl) == netPnl < 0 /\ trade.allocation = "unfavorable"

\* A reallocation condition that forgets the allocation of the position
\* (C22_ReallocationChainsBounded must tell it from the condition of the code).
ReallocateAnyAllocation(trade, netPnl) == netPnl < 0 /\ ~trade.isReallocated

ShouldReallocate(trade, netPnl) ==
  netPnl < 0 /\ trade.allocation = "unfavorable" /\ ~trade.isReallocated

Opposite(direction) == IF direction = "long" THEN "short" ELSE "long"

\* handleTradeClosure after its fee lookup (trade.type is never 'spot', so the
\* futures fee is the one looked up): PnL, then the reallocation call or the
\* history write.
MonFee(outcome, t, r) ==
  /\ mon.pc = "fee"
  /\ LET trade == objs[mon.cur]
         feeRate == getFuturesTradingFee(outcome)
         netPnl == NetPnl(trade, mon.price, feeRate)
         w0 == [World EXCEPT !.acct = [@ EXCEPT ![mon.cur] =
                                         [@ EXCEPT !.reallocCalls = @ + 1]]]
     IN  IF ShouldReallocate(trade, netPnl)
         THEN IF trade.type = "real"
              THEN /\ call' = [call EXCEPT !["mon"] =
                                 StartCall("futures", mon.price, trade.amount,
                                           Opposite(trade.direction), trade.type,
                                           "favorable", "realloc", mon.cur)]
                   /\ SetWorld(w0)
                   /\ mon' = [mon EXCEPT !.pc = "placing", !.feeRate = feeRate,
                                         !.netPnl = netPnl]
              ELSE /\ SetWorld(Reallocated(
                                 PlaceFutureTradeFake(w0, mon.price, trade.amount,
                                                      Opposite(trade.direction), "favorable",
                                                      "realloc", mon.cur, t, r),
                                 mon.cur))
                   /\ mon' = [mon EXCEPT !.pc = "write", !.feeRate = feeRate,
                                         !.netPnl = netPnl]
                   /\ UNCHANGED call
         ELSE /\ mon' = [mon EXCEPT !.pc = "write", !.feeRate = feeRate, !.netPnl = netPnl]
              /\ SetWorld(World)
              /\ UNCHANGED call
  /\ UNCHANGED <<fakeBalanceInitialized, checks, historicalData, session, mutex, cp, tradeHistory, signals, apiCalls, rejections, feed, retry>>

Outcome(netPnl) == IF netPnl >= 0 THEN "win" ELSE "loss"

TradeRecord(trade, netPnl) ==
  [id |-> trade.id, direction |-> trade.direction, type |-> trade.type,
   outcome |-> Outcome(netPnl), netPnl |-> netPnl, allocation |-> trade.allocation,
   isReallocated |-> trade.isReallocated]

\* A ledger update that credits the simulated ledger whatever the mode of the
\* position (C35_ModeIsolation must tell it from the update of the code).
CreditIgnoresMode(w, trade, netPnl) ==
  [w EXCEPT !.fakeBalance = @ + netPnl + trade.amount, !.fakePnL = @ + netPnl]

\* The ledger update of handleTradeClosure.
Credit(w, trade, netPnl) ==
  IF trade.type = "fake"
  THEN [w EXCEPT !.fakeBalance = @ + netPnl + trade.amount, !.fakePnL = @ + netPnl]
  ELSE IF trade.type = "real"
  THEN [w EXCEPT !.realBalance = @ + netPnl + trade.amount, !.realPnL = @ + netPnl]
  ELSE [w EXCEPT !.spotPnL = @ + netPnl, !.walletBalance = @ + trade.amount,
                 !.fakeBalance = @ + Mul(trade.entryPrice, trade.amount)]

\* A removal that leaves the entry in the Map (C2_NoDoubleClose must tell it from
\* the delete of the code).
RemoveKeepsEntry(at, trade) == at

\* activeTrades.delete(trade.id)
Remove(at, trade) == MapDelete(at, trade.id)

\* Ledger update and removal, as the code does them once Trade.create resolved.
Settle(w, uid, netPnl) ==
  LET trade == w.objs[uid]
      w1 == Credit(w, trade, netPnl)
  IN  [w1 EXCEPT !.activeTrades = Remove(@, trade),
                 !.acct = [@ EXCEPT ![uid] =
                             [@ EXCEPT !.closes = @ + 1]]]

\* finalizeTrade: with the Map empty a new checkPrices invocation is started.
FreeChecker == {i \in 1..NumCheckers : cp[i].pc = "idle"}

Finalized(at) ==
  IF Len(at) = 0 /\ FreeChecker # {}
  THEN [cp EXCEPT ![CHOOSE i \in FreeChecker : TRUE] = [@ EXCEPT !.pc = "balance"]]
  ELSE cp

\* Trade.create came back: on success the ledger is credited, the entry deleted
\* and the loop goes on; on failure (after the retries) the catch only logs.
MonWrite(ok) ==
  /\ mon.pc = "write"
  /\ IF ok
     THEN LET w == Settle(World, mon.cur, mon.netPnl)
              idx == IF KeyPos(activeTrades, objs[mon.cur].id) \in 1..mon.idx
                     THEN mon.idx - 1 ELSE mon.idx
          IN  /\ SetWorld(w)
              /\ tradeHistory' = Append(tradeHistory, TradeRecord(objs[mon.cur], mon.netPnl))
              /\ cp' = Finalized(w.activeTrades)
              /\ SetLoop(w.activeTrades, idx)
     ELSE /\ SetWorld(World)
          /\ SetLoop(activeTrades, mon.idx)
          /\ UNCHANGED <<tradeHistory, cp>>
  /\ UNCHANGED <<fakeBalanceInitialized, checks, historicalData, session, call, signals, apiCalls, rejections, feed, retry>>

(***************************************************************************)
(* retryOperation: the wrapper around every exchange and database call.    *)
(***************************************************************************)
RetryIdle ==
  [pc |-> "idle", retries |-> 0, delay |-> 0, r |-> 0, d |-> 0, calls |-> 0,
   waits |-> <<>>, result |-> 0, error |-> 0]

\* A backoff that does not grow (C32_BoundedRetry must tell it from the doubling
\* of the code).
NextDelayConstant(delay) == delay

\* delay * 2
NextDelay(delay) == delay * 2

\* retryOperation(operation, retries, delay) is called: operation() is invoked
\* and awaited.
RetryCall(retries, delay) ==
  /\ retry.pc = "idle"
  /\ retry' = [RetryIdle EXCEPT !.pc = "calling", !.retries = retries, !.delay = delay,
                                !.r = retries, !.d = delay, !.calls = 1]
  /\ UNCHANGED <<ledger, activeTrades, objs, historicalData, now, session, mutex, mon, call, cp,
                 tradeHistory, orders, signals, apiCalls, acct, checks, rejections, feed>>

\* operation() settled. Fulfilled: its value is returned. Rejected: with no
\* retries left the error is rethrown, otherwise sleep(delay) is awaited. The
\* value and the error are named after the invocation they came from.
RetryOperationSettles(ok) ==
  /\ retry.pc = "calling"
  /\ retry' = IF ok
              THEN [retry EXCEPT !.pc = "returned", !.result = retry.calls]
              ELSE IF retry.retries <= 0
              THEN [retry EXCEPT !.pc = "thrown", !.error = retry.calls]
              ELSE [retry EXCEPT !.pc = "sleeping", !.error = retry.calls]
  /\ UNCHANGED <<ledger, activeTrades, objs, historicalData, now, session, mutex, mon, call, cp,
                 tradeHistory, orders, signals, apiCalls, acct, checks, rejections, feed>>

\* The sleep is over: retryOperation(operation, retries - 1, delay * 2), whose
\* result or error is the result or error of this invocation.
RetrySleepOver ==
  /\ retry.pc = "sleeping"
  /\ retry' = [retry EXCEPT !.pc = "calling", !.retries = @ - 1,
                            !.delay = NextDelay(@), !.calls = @ + 1,
                            !.waits = Append(@, retry.delay)]
  /\ UNCHANGED <<ledger, activeTrades, objs, historicalData, now, session, mutex, mon, call, cp,
                 tradeHistory, orders, signals, apiCalls, acct, checks, rejections, feed>>

(***************************************************************************)
(* The probability engine.                                                 *)
(***************************************************************************)
\* A clamp that forgets the lower end (C13_ProbabilityBounds must tell it from
\* the two-sided clamp of the code).
ClampAboveOnly(probability) == IF probability > D(100) THEN D(100) ELSE probability

Clamp(probability) ==
  IF probability < 0 THEN 0
  ELSE IF probability > D(100) THEN D(100)
  ELSE probability

Adjustments(s) ==
    (IF s.rsi < D(30) THEN D(10) ELSE IF s.rsi > D(70) THEN 0 - D(10) ELSE 0)
  + (IF s.histogram > 0 THEN D(5) ELSE IF s.histogram < 0 THEN 0 - D(5) ELSE 0)
  + (IF s.sma > s.ema THEN D(5) ELSE 0 - D(5))
  + (IF s.k < D(20) /\ s.d < D(20) THEN D(10)
     ELSE IF s.k > D(80) /\ s.d > D(80) THEN 0 - D(10) ELSE 0)
  + (IF s.atr > 5000 THEN 0 - D(5) ELSE 0)
  + (IF s.price < s.lower THEN D(5) ELSE IF s.price > s.upper THEN 0 - D(5) ELSE 0)

calculateProbability(s, baseProbability) == Clamp(baseProbability + Adjustments(s))

\* A call of calculateProbability, with what it returned.
NoProbe == [applied |-> FALSE]

Probe(s, baseProbability) ==
  [applied |-> TRUE, s |-> s, base |-> baseProbability,
   p |-> calculateProbability(s, baseProbability)]

\* Arguments of calculateProbability: indicator values below, at and above each
\* threshold the function compares with, and base probabilities over [0, 100].
IndicatorInputs ==
  [rsi : {D(25), D(30), D(50), D(70), D(75)},
   histogram : {0 - D(1), 0, D(1)},
   sma : {D(1), D(2), D(3)}, ema : {D(2)},
   k : {D(10), D(50), D(90)}, d : {D(10), D(50), D(90)},
   atr : {1000, 5000, 6000},
   price : {5000, D(2), 35000}, lower : {D(1)}, upper : {D(3)}]

BaseInputs == {0, D(5), 333333, D(50), D(75), D(95), D(100)}

\* calculateProbability called on its own (it is exported).
ApiCalculateProbability(s, baseProbability) ==
  /\ probe' = Probe(s, baseProbability)
  /\ UNCHANGED <<ledger, activeTrades, objs, historicalData, now, cumulativeProbabilityChange,
                 startTime, decision, mutex, mon, call, cp, tradeHistory, orders, signals,
                 apiCalls, acct, checks, rejections, feed, retry>>

RECURSIVE Pow(_, _)
Pow(x, n) == IF n = 0 THEN D(1) ELSE Mul(x, Pow(x, n - 1))

\* Weight of the i-th most recent settled trade (i = 0 the most recent).
Weight(i) == Mul(alpha, Pow(D(1) - alpha, i))

RECURSIVE SumWeights(_, _, _)
SumWeights(h, i, winsOnly) ==
  IF i >= Len(h) THEN 0
  ELSE (IF winsOnly /\ h[Len(h) - i].outcome # "win" THEN 0 ELSE Weight(i))
       + SumWeights(h, i + 1, winsOnly)

\* calculateBaseProbability over the Trade collection, most recent first; the
\* default when there is no trade or the query failed.
calculateBaseProbability(h, ok) ==
  IF ~ok \/ Len(h) = 0 THEN defaultBaseProbability
  ELSE IF SumWeights(h, 0, FALSE) = 0 THEN 0
  ELSE Mul(Div(SumWeights(h, 0, TRUE), SumWeights(h, 0, FALSE)), D(100))

Neutral ==
  [rsi |-> D(50), histogram |-> 0, sma |-> D(2), ema |-> D(2), k |-> D(50), d |-> D(50),
   atr |-> 1000, price |-> D(2), lower |-> D(1), upper |-> D(3)]

\* Indicator snapshots the indicator library reports: +5, -5 and +35.
Snapshots ==
  { [Neutral EXCEPT !.sma = D(3)],
    Neutral,
    [Neutral EXCEPT !.rsi = D(25), !.histogram = D(1), !.sma = D(3), !.k = D(10),
                    !.d = D(10), !.price = 5000] }

(***************************************************************************)
(* checkPrices.                                                            *)
(***************************************************************************)
CpIdle == [pc |-> "idle", close |-> 0]

\* The probability at the gate of checkPrices, once an invocation got there.
NoDecision == [made |-> FALSE]

Decision(probability) == [made |-> TRUE, probability |-> probability]

\* startPriceCheckInterval's timer fires (at most maxChecks times in a run).
TimerFiresWithin(maxChecks, i) ==
  /\ cp[i].pc = "idle"
  /\ checks < maxChecks
  /\ cp' = [cp EXCEPT ![i] = [CpIdle EXCEPT !.pc = "balance"]]
  /\ checks' = checks + 1
  /\ UNCHANGED <<ledger, activeTrades, objs, historicalData, now, session, mutex, mon, call,
                 tradeHistory, orders, signals, apiCalls, acct, rejections, feed, retry>>

TimerFires(i) == TimerFiresWithin(MaxChecks, i)

BalanceOutcomes ==
  [kind : {"ok"}, available : BalanceInputs] \cup [kind : {"missing", "fail"}, available : {0}]

\* A balance fetch that seeds the simulated ledgers on every success
\* (C27_SeedingLatch must tell it from the latch of the code).
getAvaxBalanceReseeds(outcome) ==
  IF outcome.kind = "ok"
  THEN /\ realBalance' = outcome.available
       /\ fakeBalance' = outcome.available
       /\ walletBalance' = outcome.available
       /\ fakeBalanceInitialized' = TRUE
  ELSE UNCHANGED <<realBalance, fakeBalance, walletBalance, fakeBalanceInitialized>>

\* getAvaxBalance once the exchange answered (or the retries ran out).
getAvaxBalance(outcome) ==
  IF outcome.kind = "ok"
  THEN /\ realBalance' = outcome.available
       /\ IF ~fakeBalanceInitialized
          THEN /\ fakeBalance' = outcome.available
               /\ walletBalance' = outcome.available
               /\ fakeBalanceInitialized' = TRUE
          ELSE UNCHANGED <<fakeBalance, walletBalance, fakeBalanceInitialized>>
  ELSE UNCHANGED <<realBalance, fakeBalance, walletBalance, fakeBalanceInitialized>>

\* The exported getAvaxBalance, called from outside.
ApiGetAvaxBalance(outcome) ==
  /\ getAvaxBalance(outcome)
  /\ UNCHANGED <<fakePnL, realPnL, spotPnL, activeTrades, objs, historicalData, now, session,
                 mutex, mon, call, cp, tradeHistory, orders, signals, apiCalls, acct, checks, rejections, feed, retry>>

\* A checkPrices that goes on to the indicators whatever the number of candles
\* (C28_DataInsufficiency must tell it from the early return of the code).
CpBalanceSkipsWindowCheck(i, outcome) ==
  /\ cp[i].pc = "balance"
  /\ getAvaxBalance(outcome)
  /\ cp' = [cp EXCEPT ![i] = [CpIdle EXCEPT !.pc = "prob", !.close = historicalData.close]]
  /\ UNCHANGED <<fakePnL, realPnL, spotPnL, activeTrades, objs, historicalData, now, session,
                 mutex, mon, call, tradeHistory, orders, signals, apiCalls, acct, checks, rejections, feed, retry>>

\* checkPrices: getAvaxBalance, then the check of the candle window.
CpBalance(i, outcome) ==
  /\ cp[i].pc = "balance"
  /\ getAvaxBalance(outcome)
  /\ cp' = [cp EXCEPT ![i] =
              IF historicalData.len < maxPeriod
              THEN CpIdle
              ELSE [CpIdle EXCEPT !.pc = "prob", !.close = historicalData.close]]
  /\ UNCHANGED <<fakePnL, realPnL, spotPnL, activeTrades, objs, historicalData, now, session,
                 mutex, mon, call, tradeHistory, orders, signals, apiCalls, acct, checks, rejections, feed, retry>>

WindowElapsed(t) == t - startTime >= windowMs

\* An accumulator that counts the current deviation also when the window
\* restarts (C26_SessionDampening must tell it from the reset of the code).
AccumulatedCountsReset(probability, base, t) ==
  IF WindowElapsed(t)
  THEN Abs(probability - base)
  ELSE cumulativeProbabilityChange + Abs(probability - base)

Accumulated(probability, base, t) ==
  IF WindowElapsed(t) THEN 0 ELSE cumulativeProbabilityChange + Abs(probability - base)

Dampened(probability, base, t) ==
  IF Accumulated(probability, base, t) > dampeningLimit
  THEN probability - dampeningPenalty
  ELSE probability

\* A gate with no upper end (C14_AcceptanceGate must tell it from the two-sided
\* gate of the code).
AcceptedAboveMin(probability) == probability >= MIN_PROBABILITY

Accepted(probability) == probability >= MIN_PROBABILITY /\ probability <= MAX_PROBABILITY

FavorableAmount(amount) == Mul(amount, Div(D(2), D(3)))

UnfavorableAmount(amount) == Mul(amount, Div(D(1), D(3)))

\* The two legs of the hedge: placeFutureTrade with TRADE_MODE fake reaches no
\* await, so the second leg follows the first with nothing in between.
Hedge(w, close, amount, t, r, t2, r2) ==
  PlaceFutureTradeFake(
    PlaceFutureTradeFake(w, close, FavorableAmount(amount), "long", "favorable",
                         "checkPrices", 0, t, r),
    close, UnfavorableAmount(amount), "short", "unfavorable", "checkPrices", 0, t2, r2)

\* Indicators and base probability are in: probability, dampening, the gate and,
\* when it is passed, the hedge (at most maxSignals signals are accepted in a run).
CpDecideWithin(maxSignals, i, s, baseOk, t, r, t2, r2) ==
  /\ cp[i].pc = "prob"
  /\ LET base == calculateBaseProbability(tradeHistory, baseOk)
         raw == calculateProbability(s, base)
         probability == Dampened(raw, base, t)
         amount == Mul(TRADE_AMOUNT_PERCENTAGE, fakeBalance)
     IN  /\ probe' = Probe(s, base)
         /\ decision' = Decision(probability)
         /\ cumulativeProbabilityChange' = Accumulated(raw, base, t)
         /\ startTime' = IF WindowElapsed(t) THEN t ELSE startTime
         /\ IF Accepted(probability)
            THEN /\ signals < maxSignals
                 /\ signals' = signals + 1
                 /\ SetWorld(Hedge([World EXCEPT !.now = t], cp[i].close, amount,
                                   t, r, t2, r2))
            ELSE /\ SetWorld([World EXCEPT !.now = t])
                 /\ UNCHANGED signals
  /\ cp' = [cp EXCEPT ![i] = CpIdle]
  /\ UNCHANGED <<fakeBalanceInitialized, checks, historicalData, mutex, mon, call, tradeHistory,
                 apiCalls, rejections, feed, retry>>

CpDecide(i, s, baseOk, t, r, t2, r2) == CpDecideWithin(MaxSignals, i, s, baseOk, t, r, t2, r2)

(***************************************************************************)
(* The state after start-up: the ledgers at zero, no position, the candle  *)
(* history loaded by initializeData.                                       *)
(***************************************************************************)
\* What initializeData loaded: one candle short of the indicator window with the
\* last close at 2.0, or a full window with the last close at 20.0.
LoadedHistory ==
  {[len |-> maxPeriod - 1, close |-> D(2)], [len |-> maxPeriod, close |-> D(20)]}

Init ==
  /\ fakeBalanceInitialized = FALSE
  /\ fakeBalance = 0
  /\ realBalance = 0
  /\ walletBalance = 0
  /\ fakePnL = 0
  /\ realPnL = 0
  /\ spotPnL = 0
  /\ activeTrades = <<>>
  /\ objs = <<>>
  /\ historicalData \in LoadedHistory
  /\ now = 0
  /\ cumulativeProbabilityChange = 0
  /\ startTime = 0
  /\ mutex = [locked |-> FALSE, waiting |-> 0]
  /\ mon = MonIdle
  /\ call = [c \in Ctx |-> NoCall]
  /\ cp = [i \in 1..NumCheckers |-> CpIdle]
  /\ tradeHistory = <<>>
  /\ orders = {}
  /\ signals = 0
  /\ apiCalls = 0
  /\ acct = <<>>
  /\ checks = 0
  /\ probe = NoProbe
  /\ decision = NoDecision
  /\ rejections = 0
  /\ feed = [state |-> "open", retryCount |-> 0, backoffTime |-> backoffTime(0)]
  /\ retry = RetryIdle

(***************************************************************************)
(* Candle events and the monitor pass they start.                          *)
(***************************************************************************)
Monitor ==
  \/ \E close \in CandleCloses : onLiveCandleClose(close)
  \/ AcquireTimeout
  \/ MonStart
  \/ \E p \in Prices : MonPrice(TRUE, p)
  \/ MonPrice(FALSE, 0)
  \/ \E o \in FeeOutcomes, t \in IdClock, r \in 0..(IdRand - 1) : MonFee(o, t, r)
  \/ \E ok \in BOOLEAN : MonWrite(ok)

\* The engine as it is started: the timer, checkPrices and the hedge it opens.
Signals ==
  \/ \E i \in 1..NumCheckers : TimerFires(i)
  \/ \E i \in 1..NumCheckers, o \in BalanceOutcomes : CpBalance(i, o)
  \/ \E i \in 1..NumCheckers, s \in Snapshots, baseOk \in BOOLEAN, t \in WindowClock,
        r \in 0..(IdRand - 1), r2 \in 0..(IdRand - 1) :
       \E t2 \in NextClock(t) : CpDecide(i, s, baseOk, t, r, t2, r2)

\* The exported functions, called from outside the module.
Api ==
  \/ \E o \in BalanceOutcomes : ApiGetAvaxBalance(o)
  \/ \E p \in ApiPrices, a \in ApiAmounts, dir \in Directions, m \in Modes,
        al \in Allocations, t \in IdClock, r \in 0..(IdRand - 1) :
       ApiPlaceFutureTrade(p, a, dir, m, al, t, r)
  \/ \E p \in ApiPrices, a \in ApiAmounts, m \in Modes, dir \in Directions :
       ApiPlaceSpotTrade(p, a, m, dir)
  \/ \E c \in Ctx, o \in FeeOutcomes, t \in IdClock, r \in 0..(IdRand - 1) :
       CallFeeReturns(c, o, t, r)
  \/ \E c \in Ctx, ok \in BOOLEAN, t \in IdClock, r \in 0..(IdRand - 1) :
       CallOrderReturns(c, ok, t, r)

Next == Monitor \/ Signals \/ Api

Spec == Init /\ [][Next]_vars

\* The engine on its own: nothing outside calls the exported functions.
NextEngine == Monitor \/ Signals

SpecEngine == Init /\ [][NextEngine]_vars

\* The exported functions at work, with no signal check getting through.
NextApi == Monitor \/ Api

SpecApi == Init /\ [][NextApi]_vars

\* The live feed with its reconnects, and the candles it delivers while no
\* position is open.
NextFeed ==
  \/ FeedOpen
  \/ FeedClose
  \/ FeedReconnect
  \/ \E close \in CandleCloses : onLiveCandleClose(close)
  \/ AcquireTimeout
  \/ MonStart

SpecFeed == Init /\ [][NextFeed]_vars

\* calculateProbability on its own, over all its arguments: one call in a
\* behaviour (the function keeps no state, so a second call shows nothing new).
NextProbability ==
  /\ ~probe.applied
  /\ \E s \in IndicatorInputs, baseProbability \in BaseInputs :
        ApiCalculateProbability(s, baseProbability)

SpecProbability == Init /\ [][NextProbability]_vars

(***************************************************************************)
\* A worked spot round trip: a balance that covers 10 units at 100, the spot
\* taker rate 0.1% reported by both fee lookups (or their fallbacks), and
\* prices below, at and above the entry.
ScenarioBalances == {D(2000)}

ScenarioPrices == {D(98), D(100), D(106)}

ScenarioBalanceOutcomes ==
  [kind : {"ok"}, available : ScenarioBalances] \cup [kind : {"missing", "fail"}, available : {0}]

ScenarioFeeOutcomes == [ok : {TRUE}, rate : {defaultSpotTakerFee}] \cup [ok : {FALSE}, rate : {0}]

NextScenario ==
  \/ \E o \in ScenarioBalanceOutcomes : ApiGetAvaxBalance(o)
  \/ \E m \in Modes, dir \in Directions : ApiPlaceSpotTrade(D(100), D(10), m, dir)
  \/ \E o \in ScenarioFeeOutcomes, t \in IdClock, r \in 0..(IdRand - 1) :
       CallFeeReturns("api", o, t, r)
  \/ \E ok \in BOOLEAN, t \in IdClock, r \in 0..(IdRand - 1) : CallOrderReturns("api", ok, t, r)
  \/ \E close \in CandleCloses : onLiveCandleClose(close)
  \/ AcquireTimeout
  \/ MonStart
  \/ \E p \in ScenarioPrices : MonPrice(TRUE, p)
  \/ MonPrice(FALSE, 0)
  \/ \E o \in ScenarioFeeOutcomes, t \in IdClock, r \in 0..(IdRand - 1) : MonFee(o, t, r)
  \/ \E ok \in BOOLEAN : MonWrite(ok)

SpecScenario == Init /\ [][NextScenario]_vars

(***************************************************************************)

\* The engine with an outside caller that opens one simulated futures position
\* while it runs: the hedge of a neutral snapshot, the monitor, and one call of
\* the exported placeFutureTrade.
OverlapAmounts == {D(1)}

OverlapPrices == {D(2), 22000}

NextOverlap ==
  \/ \E close \in CandleCloses : onLiveCandleClose(close)
  \/ MonStart
  \/ \E p \in OverlapPrices : MonPrice(TRUE, p)
  \/ \E o \in FeeOutcomes, t \in IdClock, r \in 0..(IdRand - 1) : MonFee(o, t, r)
  \/ MonWrite(TRUE)
  \/ \E i \in 1..NumCheckers : TimerFires(i)
  \/ \E i \in 1..NumCheckers, o \in BalanceOutcomes : CpBalance(i, o)
  \/ \E i \in 1..NumCheckers, baseOk \in BOOLEAN, t \in WindowClock,
        r \in 0..(IdRand - 1), r2 \in 0..(IdRand - 1) :
       \E t2 \in NextClock(t) : CpDecide(i, Neutral, baseOk, t, r, t2, r2)
  \/ \E p \in ApiPrices, a \in OverlapAmounts, dir \in Directions, t \in IdClock,
        r \in 0..(IdRand - 1) :
       ApiPlaceFutureTrade(p, a, dir, "fake", "favorable", t, r)

SpecOverlap == Init /\ [][NextOverlap]_vars

\* retryOperation on its own, for every number of retries up to MaxRetries and
\* a few initial delays. The awaited operation settles and the timer of sleep
\* fires: both steps are taken once they are enabled.
RetryDelays == {1, 500, 1000}

NextRetry ==
  \/ \E retries \in 0..MaxRetries, delay \in RetryDelays : RetryCall(retries, delay)
  \/ \E ok \in BOOLEAN : RetryOperationSettles(ok)
  \/ RetrySleepOver

SpecRetry ==
  /\ Init
  /\ [][NextRetry]_vars
  /\ WF_vars(\E ok \in BOOLEAN : RetryOperationSettles(ok))
  /\ WF_vars(RetrySleepOver)

\* The exported functions and the monitor with the exchange refusing every fee
\* lookup: each lookup comes back only after its retries ran out.
FailedLookup == [ok |-> FALSE, rate |-> 0]

NextFallback ==
  \/ \E close \in CandleCloses : onLiveCandleClose(close)
  \/ AcquireTimeout
  \/ MonStart
  \/ \E p \in Prices : MonPrice(TRUE, p)
  \/ MonPrice(FALSE, 0)
  \/ \E t \in IdClock, r \in 0..(IdRand - 1) : MonFee(FailedLookup, t, r)
  \/ \E ok \in BOOLEAN : MonWrite(ok)
  \/ \E o \in BalanceOutcomes : ApiGetAvaxBalance(o)
  \/ \E p \in ApiPrices, a \in ApiAmounts, dir \in Directions, m \in Modes,
        al \in Allocations, t \in IdClock, r \in 0..(IdRand - 1) :
       ApiPlaceFutureTrade(p, a, dir, m, al, t, r)
  \/ \E p \in ApiPrices, a \in ApiAmounts, m \in Modes, dir \in Directions :
       ApiPlaceSpotTrade(p, a, m, dir)
  \/ \E c \in Ctx, t \in IdClock, r \in 0..(IdRand - 1) : CallFeeReturns(c, FailedLookup, t, r)
  \/ \E c \in Ctx, ok \in BOOLEAN, t \in IdClock, r \in 0..(IdRand - 1) :
       CallOrderReturns(c, ok, t, r)

SpecFallback == Init /\ [][NextFallback]_vars

\* The engine over two periods of its timer: checkPrices is invoked by the
\* interval (and by finalizeTrade) up to CycleChecks times on a neutral snapshot,
\* while the monitor evaluates and settles what is open.
NextCycle ==
  \/ \E close \in CandleCloses : onLiveCandleClose(close)
  \/ MonStart
  \/ \E p \in OverlapPrices : MonPrice(TRUE, p)
  \/ \E o \in FeeOutcomes, t \in IdClock, r \in 0..(IdRand - 1) : MonFee(o, t, r)
  \/ MonWrite(TRUE)
  \/ \E i \in 1..NumCheckers : TimerFiresWithin(CycleChecks, i)
  \/ \E i \in 1..NumCheckers, o \in BalanceOutcomes : CpBalance(i, o)
  \/ \E i \in 1..NumCheckers, baseOk \in BOOLEAN, t \in WindowClock,
        r \in 0..(IdRand - 1), r2 \in 0..(IdRand - 1) :
       \E t2 \in NextClock(t) :
          CpDecideWithin(CycleSignals, i, Neutral, baseOk, t, r, t2, r2)

SpecCycle == Init /\ [][NextCycle]_vars

\* Concurrent opens on one ledger: an outside caller opens real futures
\* positions whose margins do not both fit into the balance the exchange
\* reports, while the monitor settles what is open and reallocates a losing
\* unfavorable position. Every open is suspended on its fee lookup and on its
\* order, so the opens of the caller and of the reallocation interleave.
OpensAmounts == {D(15)}

OpensPrices == {22000}

OpensBalanceOutcomes == [kind : {"ok"}, available : BalanceInputs]

NextOpens ==
  \/ \E o \in OpensBalanceOutcomes : ApiGetAvaxBalance(o)
  \/ \E p \in ApiPrices, a \in OpensAmounts, dir \in Directions, al \in Allocations,
        t \in IdClock, r \in 0..(IdRand - 1) :
       ApiPlaceFutureTradeWithin(OpensApiCalls, p, a, dir, "real", al, t, r)
  \/ \E c \in Ctx, o \in FeeOutcomes, t \in IdClock, r \in 0..(IdRand - 1) :
       CallFeeReturns(c, o, t, r)
  \/ \E c \in Ctx, ok \in BOOLEAN, t \in IdClock, r \in 0..(IdRand - 1) :
       CallOrderReturns(c, ok, t, r)
  \/ \E close \in CandleCloses : onLiveCandleClose(close)
  \/ MonStart
  \/ \E p \in OpensPrices : MonPrice(TRUE, p)
  \/ \E o \in FeeOutcomes, t \in IdClock, r \in 0..(IdRand - 1) : MonFee(o, t, r)
  \/ MonWrite(TRUE)

SpecOpens == Init /\ [][NextOpens]_vars

(***************************************************************************)
(* Properties.                                                             *)
(***************************************************************************)
\* The positions opened by the reallocation of position u.
Children(u) == {v \in 1..Len(acct) : acct[v].via = "realloc" /\ acct[v].parent = u}

\* C1 - balance conservation: settling a simulated futures position at its entry
\* price, with every fee rate 0, credits fakeBalance with exactly the amount that
\* its open debited.
C1_BalanceConservation ==
  [][\A u \in 1..Len(acct) :
        ( /\ acct'[u].closes = acct[u].closes + 1
          /\ acct[u].instr = "futures"
          /\ objs[u].type = "fake"
          /\ objs[u].feeRate = 0
          /\ mon.feeRate = 0
          /\ mon.price = objs[u].entryPrice )
        => fakeBalance' = fakeBalance + acct[u].debit]_vars

\* C2 - no position is closed twice: the ledger credit and the removal are applied
\* at most once to every position, and handleTradeClosure is never called for a
\* position that has been settled.
C2_NoDoubleClose ==
  [][ /\ \A u \in 1..Len(acct') : acct'[u].closes <= 1
      /\ (mon.pc = "price" /\ mon'.pc = "fee") => acct[mon.cur].closes = 0 ]_vars

\* One position is settled and a monitor pass is at work on another one.
C2_Witness ==
  \E u \in 1..Len(acct) :
     /\ acct[u].closes = 1
     /\ mon.pc = "price"
     /\ mon.cur # u
     /\ Len(tradeHistory) > 0

\* C3 - every change of the membership of activeTrades is made while the mutex is
\* held, by the operation that holds it (the monitor pass and the closure it runs).
C3_MembershipUnderMutex ==
  [][activeTrades' # activeTrades =>
       /\ mutex.locked
       /\ (mon' # mon \/ call'["mon"] # call["mon"])]_vars

C6_InsufficientFundsNoMutation ==
  [][ /\ \A c \in Ctx :
           ( /\ call[c].pc = "fee" /\ call'[c].pc # "fee"
             /\ TotalCost(call[c].instr, call[c].entryPrice, call[c].amount,
                          call[c].type, 0)
                  > (IF call[c].type = "real" THEN realBalance ELSE fakeBalance) )
           => /\ ledger' = ledger
              /\ activeTrades' = activeTrades
              /\ call'[c].pc = "none"
      /\ ( /\ mon.pc = "fee"
           /\ acct'[mon.cur].reallocCalls = acct[mon.cur].reallocCalls + 1
           /\ objs[mon.cur].type = "fake"
           /\ Mul(mon.price, objs[mon.cur].amount) > fakeBalance )
         => ledger' = ledger /\ activeTrades' = activeTrades ]_vars

\* An exported open was called before any balance was fetched and has returned:
\* no position, no order, the ledgers untouched.
C6_Witness ==
  /\ apiCalls = 1
  /\ call["api"].pc = "none"
  /\ ~fakeBalanceInitialized
  /\ realBalance = 0
  /\ objs = <<>>
  /\ orders = {}

\* C7 - order failure aborts the open: when the order of a real open fails, the
\* debit of that open is given back (realBalance, and walletBalance for spot).
C7_OrderFailureAborts ==
  [][\A c \in Ctx :
        (call[c].pc = "order" /\ call'[c].pc = "none" /\ Len(objs') = Len(objs))
        => /\ realBalance' = realBalance + call[c].totalCost
           /\ call[c].instr = "spot" => walletBalance' = walletBalance + call[c].amount]_vars

\* C8 - a simulated open never submits a market order: every order that reached
\* the exchange was submitted by an open in real mode.
C8_NoOrdersForFake == \A o \in orders : o.type = "real"

\* A simulated position was opened by the reallocation of a simulated position.
C8_Witness ==
  \E u \in 1..Len(objs) :
     /\ objs[u].type = "fake"
     /\ acct[u].via = "realloc"
     /\ objs[acct[u].parent].type = "fake"

\* C9 - ledger non-negativity: fakeBalance and realBalance are never negative.
C9_NonNegativeLedgers == fakeBalance >= 0 /\ realBalance >= 0

\* C10 - monotonic peak ratchet: peakProfit of a position never decreases, and
\* peakPrice changes only in the step of the monitor pass that raises peakProfit
\* to a strictly higher unrealized profit, the profit at the new peakPrice.
C10_PeakRatchet ==
  [][\A u \in 1..Len(objs) :
        /\ objs'[u].peakProfit >= objs[u].peakProfit
        /\ objs'[u].peakPrice # objs[u].peakPrice =>
              /\ objs'[u].peakProfit > objs[u].peakProfit
              /\ objs'[u].peakProfit = CurrentProfit(objs[u], objs'[u].peakPrice)
              /\ mon.pc = "price"
              /\ mon.cur = u]_vars

\* A position whose peak was raised above its entry.
C10_Witness ==
  \E u \in 1..Len(objs) :
     /\ objs[u].peakProfit > 0
     /\ objs[u].peakPrice # objs[u].entryPrice

\* C11 - frame of a registered position: no step (monitor tick, settlement attempt,
\* reallocation, or anything else) changes the stopLoss, takeProfit, entryPrice,
\* amount, direction, allocation or entryFee of a position object once it is
\* registered; peakProfit, peakPrice and isReallocated are the fields that change.
C11_FrameOfPosition ==
  [][\A u \in 1..Len(objs) :
        /\ objs'[u].stopLoss = objs[u].stopLoss
        /\ objs'[u].takeProfit = objs[u].takeProfit
        /\ objs'[u].entryPrice = objs[u].entryPrice
        /\ objs'[u].amount = objs[u].amount
        /\ objs'[u].direction = objs[u].direction
        /\ objs'[u].allocation = objs[u].allocation
        /\ objs'[u].entryFee = objs[u].entryFee]_vars

\* A position was reallocated and settled, and the peak of a position was raised.
C11_Witness ==
  /\ \E u \in 1..Len(objs) : objs[u].isReallocated /\ acct[u].closes = 1
  /\ \E v \in 1..Len(objs) : objs[v].peakProfit > 0 /\ objs[v].peakPrice # objs[v].entryPrice

\* C12 - fee asymmetry: the netPnl that handleTradeClosure computes is the gross
\* PnL minus the entryFee stored on the position at open (entryPrice x amount x the
\* rate at open, which the closure leaves as it is) minus exitPrice x amount x the
\* rate resolved at close; that netPnl is what a settlement adds to the PnL counter.
C12_FeeAsymmetry ==
  [][ /\ (mon.pc = "fee" /\ mon'.pc # "fee") =>
           /\ objs[mon.cur].entryFee
                = Mul(Mul(objs[mon.cur].entryPrice, objs[mon.cur].amount),
                      objs[mon.cur].feeRate)
           /\ objs'[mon.cur].entryFee = objs[mon.cur].entryFee
           /\ mon'.netPnl = GrossPnl(objs[mon.cur], mon.price)
                              - objs[mon.cur].entryFee
                              - Mul(Mul(mon.price, objs[mon.cur].amount), mon'.feeRate)
      /\ (mon.pc = "write" /\ acct'[mon.cur].closes = acct[mon.cur].closes + 1) =>
           (fakePnL' - fakePnL) + (realPnL' - realPnL) = mon.netPnl ]_vars

\* A position opened at one fee rate, with a positive entry fee, is being settled
\* at another fee rate.
C12_Witness ==
  /\ mon.pc = "write"
  /\ objs[mon.cur].entryFee > 0
  /\ mon.feeRate # objs[mon.cur].feeRate

\* C13 - probability bounds: whatever the indicator snapshot and the base
\* probability, calculateProbability returns p with 0 <= p <= 100, and p is the base
\* plus the sum of the triggered adjustments, clamped to [0, 100].
C13_ProbabilityBounds ==
  probe.applied =>
    LET sum == probe.base + Adjustments(probe.s)
    IN  /\ 0 <= probe.p
        /\ probe.p <= D(100)
        /\ probe.p = (IF sum < 0 THEN 0 ELSE IF sum > D(100) THEN D(100) ELSE sum)

\* A call whose adjusted sum fell below 0 and was clamped.
C13_Witness ==
  /\ probe.applied
  /\ probe.base + Adjustments(probe.s) < 0
  /\ probe.p = 0

\* C14 - trade-acceptance gate: the step in which checkPrices decides opens
\* positions only if the probability it took to the gate (after the dampening
\* penalty) is within [70, 80]; for every other value that step opens no position,
\* submits no order and leaves every ledger and activeTrades as they were.
C14_AcceptanceGate ==
  [][\A i \in 1..NumCheckers :
        (cp[i].pc = "prob" /\ cp'[i].pc # "prob") =>
           /\ decision'.made
           /\ Len(objs') > Len(objs) =>
                 (decision'.probability >= D(70) /\ decision'.probability <= D(80))
           /\ ~(decision'.probability >= D(70) /\ decision'.probability <= D(80)) =>
                 /\ ledger' = ledger
                 /\ activeTrades' = activeTrades
                 /\ objs' = objs
                 /\ orders' = orders]_vars

\* checkPrices took a probability within [70, 80] to its gate and opened the hedge.
C14_Witness ==
  /\ decision.made
  /\ decision.probability >= D(70)
  /\ decision.probability <= D(80)
  /\ signals = 1
  /\ \E u \in 1..Len(acct) : acct[u].via = "checkPrices"

\* C15 - mutual exclusion of monitor passes: the mutex is held exactly while a pass
\* is between its acquire and its release, passes queue only behind a held mutex,
\* and while a pass is in progress (suspended on a price fetch, fee lookup,
\* reallocation open or history write) no step starts another pass except the
\* release of the pass in progress, which hands the mutex to a queued one.
C15_OnePassAtATime ==
  [][ /\ mutex'.locked <=> mon'.pc # "idle"
      /\ mutex'.waiting > 0 => mutex'.locked
      /\ (mon.pc # "idle" /\ mon' # mon /\ mon'.pc = "start") =>
            /\ mon.pc \in {"start", "price", "write"}
            /\ mutex'.waiting = mutex.waiting - 1 ]_vars

\* A candle-close event arrived while a pass is suspended on its history write: the
\* pass it started is queued on the mutex.
C15_Witness ==
  /\ mon.pc = "write"
  /\ mutex.locked
  /\ mutex.waiting = 1

\* C16 - the mutex is released on every exit path: the step in which a pass ends
\* (after a normal evaluation, a failed price fetch, a failed history write, or a
\* reallocation whose open was rejected or whose order failed) leaves the mutex
\* free, or held by exactly one pass taken from the queue.
C16_ReleasedOnEveryExit ==
  [][ /\ (mon.pc \in {"start", "price", "write"} /\ mon'.pc = "idle") =>
            (~mutex'.locked /\ mutex'.waiting = 0)
      /\ (mon.pc \in {"price", "write"} /\ mon'.pc = "start") =>
            (mutex'.locked /\ mutex'.waiting = mutex.waiting - 1)
      /\ mon'.pc = "idle" => ~mutex'.locked ]_vars

\* A pass ended after the history write of a take-profit closure failed: the
\* position is still active, no pass is running and the mutex is free.
C16_Witness ==
  /\ mon.pc = "idle"
  /\ ~mutex.locked
  /\ \E j \in 1..Len(activeTrades) :
        /\ acct[activeTrades[j].uid].closes = 0
        /\ TakeProfitReached(objs[activeTrades[j].uid], objs[activeTrades[j].uid].peakPrice)
        /\ objs[activeTrades[j].uid].peakPrice # objs[activeTrades[j].uid].entryPrice

\* C17 - acquisition timeout: the step in which a queued acquire is rejected (the
\* mutex was held for the whole timeout) ends that pass: no position is evaluated,
\* the pass that holds the mutex is not disturbed, and the ledgers, activeTrades,
\* the trade objects, the history and the orders stay as they were.
C17_AcquireTimeout ==
  [][rejections' = rejections + 1 =>
        /\ mutex.locked
        /\ mutex.waiting > 0
        /\ mutex'.locked
        /\ mutex'.waiting = mutex.waiting - 1
        /\ mon' = mon
        /\ ledger' = ledger
        /\ activeTrades' = activeTrades
        /\ objs' = objs
        /\ acct' = acct
        /\ tradeHistory' = tradeHistory
        /\ orders' = orders
        /\ call' = call
        /\ cp' = cp]_vars

\* After a rejected acquire the engine goes on: a later candle-close event has
\* queued a pass again while a pass is evaluating a position.
C17_Witness ==
  /\ rejections = 1
  /\ mutex.waiting = 1
  /\ mon.pc = "price"
  /\ Len(activeTrades) > 0

\* C18 - partial-failure tolerance of settlement, as claimed: when the history
\* write of a closure fails after its retries, the position is removed from
\* activeTrades all the same and the PnL counter and balance of its mode are
\* updated with the closure's netPnl.
C18_SettlesDespiteFailedWrite ==
  [][(mon.pc = "write" /\ mon'.pc # "write" /\ tradeHistory' = tradeHistory) =>
        /\ KeyPos(activeTrades', objs[mon.cur].id) = 0
        /\ (fakePnL' - fakePnL) + (realPnL' - realPnL) = mon.netPnl
        /\ (fakeBalance' - fakeBalance) + (realBalance' - realBalance)
             = mon.netPnl + objs[mon.cur].amount]_vars

\* C19 - stable snapshot iteration, as claimed: every position a monitor pass
\* goes on to evaluate was in activeTrades when the loop of that pass began; a
\* position added during the pass is not evaluated in it.
C19_SnapshotIteration ==
  [][(mon'.pc = "price" /\ mon' # mon) => mon'.cur \in mon'.atStart]_vars

\* C20 - spot round trip, as claimed: the settlement of a position opened by
\* placeSpotTrade credits walletBalance with the amount the open took from it,
\* credits the notional entryPrice x amount to the balance of the position's mode
\* and adds the closure's netPnl to spotPnL.
C20_SpotRoundTrip ==
  [][\A u \in 1..Len(acct) :
        (acct[u].instr = "spot" /\ acct'[u].closes = acct[u].closes + 1) =>
           /\ walletBalance' = walletBalance + objs[u].amount
           /\ spotPnL' = spotPnL + mon.netPnl
           /\ (fakeBalance' - fakeBalance) + (realBalance' - realBalance)
                = Mul(objs[u].entryPrice, objs[u].amount)]_vars

\* C21 - position ids are unique, as claimed: no two positions ever opened have
\* the same id, so every position that has not been settled is still the entry
\* of activeTrades under its id.
C21_UniqueIds ==
  /\ \A u, v \in 1..Len(objs) : u # v => objs[u].id # objs[v].id
  /\ \A u \in 1..Len(objs) : acct[u].closes = 0 => u \in Positions(activeTrades)

\* C22 - reallocation chains are bounded: isReallocated never goes back from true
\* to false; a position opened by a reallocation is registered with allocation
\* favorable and isReallocated false; and no reallocation is ever made for such a
\* position: placeFutureTrade is not called for it and it has no child.
C22_ReallocationChainsBounded ==
  [][ /\ \A u \in 1..Len(objs) : objs[u].isReallocated => objs'[u].isReallocated
      /\ \A v \in 1..Len(objs') :
            acct'[v].via = "realloc" =>
               /\ objs'[v].allocation = "favorable"
               /\ ~objs'[v].isReallocated
               /\ acct'[v].reallocCalls = 0
               /\ \A w \in 1..Len(acct') :
                     ~(acct'[w].via = "realloc" /\ acct'[w].parent = v) ]_vars

\* A position opened by a reallocation was settled with a loss.
C22_Witness ==
  \E v \in 1..Len(objs) :
     /\ acct[v].via = "realloc"
     /\ acct[v].closes = 1
     /\ \E k \in 1..Len(tradeHistory) :
           /\ tradeHistory[k].id = objs[v].id
           /\ tradeHistory[k].direction = objs[v].direction
           /\ tradeHistory[k].allocation = "favorable"
           /\ tradeHistory[k].netPnl < 0

\* C23 - live-feed reconnect is bounded, as claimed: after a bounded number of
\* consecutive failed reconnects the feed stops reconnecting; so when a socket
\* that was opened with the largest retryCount explored closes, no further
\* reconnect is scheduled.
C23_ReconnectBounded == feed.state = "waiting" => feed.retryCount < MaxRetryCount

\* C24 - hedge construction, as claimed: the step in which checkPrices accepts a
\* signal registers two positions at the last close, in the configured mode: first
\* a favorable long of 2/3 of the amount, then an unfavorable short of 1/3 of it.
C24_HedgeConstruction ==
  [][signals' = signals + 1 =>
        LET amount == Mul(TRADE_AMOUNT_PERCENTAGE, fakeBalance)
            n == Len(objs)
        IN  /\ Len(objs') = n + 2
            /\ \A v \in {n + 1, n + 2} :
                  /\ acct'[v].via = "checkPrices"
                  /\ \E i \in 1..NumCheckers :
                        cp[i].pc = "prob" /\ objs'[v].entryPrice = cp[i].close
                  /\ objs'[v].type = TRADE_MODE
            /\ objs'[n + 1].direction = "long"
            /\ objs'[n + 1].allocation = "favorable"
            /\ objs'[n + 1].amount = Mul(amount, Div(D(2), D(3)))
            /\ objs'[n + 2].direction = "short"
            /\ objs'[n + 2].allocation = "unfavorable"
            /\ objs'[n + 2].amount = Mul(amount, Div(D(1), D(3)))]_vars

\* C25 - worked scenario: a long spot position opened at entry 100 for amount 10
\* at taker rate 0.1% is registered with stopLoss 98.5, takeProfit 106 and
\* entryFee 1; when the monitor fetches price 106 for it and the fee lookup at
\* close reports 0.1%, the take-profit branch is the one taken, the net PnL is
\* 57.94 (60 - 1 - 1.06), and once the history write succeeds the position is
\* out of the active set with that net PnL recorded.
C25_SpotScenario ==
  [][ /\ \A u \in (Len(objs) + 1)..Len(objs') :
           ( /\ acct'[u].instr = "spot"
             /\ objs'[u].direction = "long"
             /\ objs'[u].entryPrice = D(100)
             /\ objs'[u].amount = D(10)
             /\ objs'[u].feeRate = D(1) \div 1000 )
           => /\ objs'[u].stopLoss = D(985) \div 10
              /\ objs'[u].takeProfit = D(106)
              /\ objs'[u].entryFee = D(1)
      /\ ( /\ mon.pc = "price" /\ mon'.cur = mon.cur
           /\ acct[mon.cur].instr = "spot"
           /\ objs[mon.cur].direction = "long"
           /\ objs[mon.cur].feeRate = D(1) \div 1000
           /\ mon'.pc = "fee" /\ mon'.price = D(106) )
         => mon'.branch = "tp"
      /\ ( /\ mon.pc = "fee" /\ mon.price = D(106)
           /\ acct[mon.cur].instr = "spot"
           /\ objs[mon.cur].direction = "long"
           /\ objs[mon.cur].feeRate = D(1) \div 1000
           /\ mon'.feeRate = D(1) \div 1000 )
         => mon'.pc = "write" /\ mon'.netPnl = D(5794) \div 100
      /\ ( /\ mon.pc = "write" /\ mon.price = D(106) /\ mon.feeRate = D(1) \div 1000
           /\ acct[mon.cur].instr = "spot"
           /\ objs[mon.cur].direction = "long"
           /\ objs[mon.cur].feeRate = D(1) \div 1000
           /\ Len(tradeHistory') = Len(tradeHistory) + 1 )
         => /\ tradeHistory'[Len(tradeHistory')].netPnl = D(5794) \div 100
            /\ mon.cur \notin Positions(activeTrades')
            /\ mon.branch = "tp" ]_vars

\* The scenario has run to its end: the long spot position was closed at 106
\* through the take-profit branch and its record is in the history.
C25_Witness ==
  /\ Len(tradeHistory) = 1
  /\ tradeHistory[1].netPnl = D(5794) \div 100
  /\ Len(objs) = 1
  /\ acct[1].instr = "spot" /\ acct[1].closes = 1
  /\ objs[1].direction = "long"
  /\ objs[1].stopLoss = D(985) \div 10
  /\ objs[1].takeProfit = D(106)
  /\ objs[1].entryFee = D(1)
  /\ objs[1].peakPrice = D(106)
  /\ activeTrades = <<>>

\* C26 - session dampening: in the step of checkPrices that evaluates a signal at
\* time t, if t - startTime >= 900 s the accumulator becomes 0 and startTime
\* becomes t (the current deviation is not added); otherwise |probability - base|
\* is added to the accumulator and startTime stays. The probability taken to the
\* gate is the computed one minus exactly 5 if and only if the accumulator is
\* then greater than 20, and the computed one otherwise.
C26_SessionDampening ==
  [][\A i \in 1..NumCheckers :
        (cp[i].pc = "prob" /\ cp'[i].pc # "prob") =>
           /\ probe'.applied /\ decision'.made
           /\ \E t \in {now' - 1, now'} :
                /\ t >= now
                /\ IF t - startTime >= 900 * 1000
                   THEN /\ cumulativeProbabilityChange' = 0
                        /\ startTime' = t
                   ELSE /\ cumulativeProbabilityChange' =
                             cumulativeProbabilityChange + Abs(probe'.p - probe'.base)
                        /\ startTime' = startTime
           /\ (decision'.probability = probe'.p - D(5))
                 <=> (cumulativeProbabilityChange' > D(20))
           /\ (decision'.probability = probe'.p)
                 <=> ~(cumulativeProbabilityChange' > D(20))]_vars

\* An evaluation inside the window whose deviation took the accumulator over 20:
\* the probability went to the gate reduced by 5.
C26_Witness ==
  /\ probe.applied /\ decision.made
  /\ startTime = 0
  /\ cumulativeProbabilityChange = Abs(probe.p - probe.base)
  /\ cumulativeProbabilityChange > D(20)
  /\ decision.probability = probe.p - D(5)

\* C27 - one-time seeding latch: fakeBalanceInitialized, once set, stays set; the
\* step that sets it is a balance fetch that assigned realBalance a reported
\* balance and copied it to fakeBalance and walletBalance; a balance fetch made
\* with the latch set leaves fakeBalance and walletBalance as they were; and a
\* balance fetch that does not end with the latch set (a failed one, or one
\* that reports no AVAX balance) changes none of the ledgers.
C27_SeedingLatch ==
  [][LET fetch == UNCHANGED <<fakePnL, realPnL, spotPnL, activeTrades, objs, historicalData,
                              now, session, mutex, mon, call, tradeHistory, orders, signals,
                              apiCalls, acct, checks, rejections, feed>>
     IN  /\ fakeBalanceInitialized => fakeBalanceInitialized'
         /\ (~fakeBalanceInitialized /\ fakeBalanceInitialized') =>
               /\ fetch
               /\ realBalance' \in BalanceInputs
               /\ fakeBalance' = realBalance'
               /\ walletBalance' = realBalance'
         /\ (fetch /\ fakeBalanceInitialized) =>
               /\ fakeBalance' = fakeBalance
               /\ walletBalance' = walletBalance
         /\ (fetch /\ ~fakeBalanceInitialized') =>
               UNCHANGED <<fakeBalance, realBalance, walletBalance, fakePnL, realPnL,
                           spotPnL>>]_vars

\* A balance fetch made after the seeding: a real spot position is open, its
\* open debited realBalance and walletBalance, and a later fetch has put the
\* reported balance back into realBalance while walletBalance kept the debit.
C27_Witness ==
  /\ fakeBalanceInitialized
  /\ Len(objs) = 1
  /\ acct[1].instr = "spot" /\ acct[1].closes = 0 /\ acct[1].debit > 0
  /\ objs[1].type = "real"
  /\ realBalance \in BalanceInputs
  /\ walletBalance = realBalance - objs[1].amount
  /\ fakeBalance = realBalance

\* C28 - data insufficiency: when checkPrices, back from its balance fetch, finds
\* fewer than 26 candles, the invocation ends in that step: no probability is
\* computed, the dampening accumulator and its window start are unchanged, and no
\* position is opened (no trade object, no entry in the active set, no order, no
\* signal counted).
C28_DataInsufficiency ==
  [][\A i \in 1..NumCheckers :
        (cp[i].pc = "balance" /\ cp'[i].pc # "balance" /\ historicalData.len < 26) =>
           /\ cp'[i].pc = "idle"
           /\ probe' = probe
           /\ decision' = decision
           /\ cumulativeProbabilityChange' = cumulativeProbabilityChange
           /\ startTime' = startTime
           /\ objs' = objs
           /\ activeTrades' = activeTrades
           /\ orders' = orders
           /\ signals' = signals
           /\ call' = call]_vars

\* A checkPrices invocation has come and gone on a history of 25 candles: the
\* balance was fetched, and nothing was computed or opened.
C28_Witness ==
  /\ checks = 1
  /\ \A i \in 1..NumCheckers : cp[i].pc = "idle"
  /\ historicalData.len = 25
  /\ fakeBalanceInitialized
  /\ ~probe.applied
  /\ ~decision.made
  /\ cumulativeProbabilityChange = 0 /\ startTime = 0
  /\ objs = <<>> /\ activeTrades = <<>>

\* C29 - exit evaluation: when a monitor pass visits position u and the price
\* fetch succeeds with price p, then, with the peak fields as updated in that
\* visit, handleTradeClosure is entered for u exactly if p meets the take-profit
\* condition (long: p >= takeProfit; short: p <= takeProfit) or the stop condition
\* (long: p <= peakPrice x 0.98 or p <= stopLoss; short: p >= peakPrice x 1.02 or
\* p >= stopLoss); otherwise u stays in the active set and no ledger changes.
\* A closure whose history write succeeds leaves u out of the active set, and a
\* position that was in the active set when the pass began leaves it only in a
\* step of its own closure.
C29_ExitEvaluation ==
  [][LET met(tr, p) ==
           IF tr.direction = "long"
           THEN \/ p >= tr.takeProfit
                \/ p <= (tr.peakPrice * 98) \div 100
                \/ p <= tr.stopLoss
           ELSE \/ p <= tr.takeProfit
                \/ p >= (tr.peakPrice * 102) \div 100
                \/ p >= tr.stopLoss
         closing == {"fee", "placing", "write"}
     IN  /\ (mon.pc = "price" /\ mon' # mon /\ mon'.price # 0) =>
               /\ mon.cur \in Positions(activeTrades)
               /\ ledger' = ledger
               /\ IF met(objs'[mon.cur], mon'.price)
                  THEN mon'.pc = "fee" /\ mon'.cur = mon.cur
                  ELSE /\ mon'.pc \notin closing
                       /\ activeTrades' = activeTrades
         /\ (mon.pc = "write" /\ Len(tradeHistory') > Len(tradeHistory)) =>
               mon.cur \notin Positions(activeTrades')
         /\ \A u \in (Positions(activeTrades) \cap mon.atStart) \ Positions(activeTrades') :
               /\ mon.pc \in closing
               /\ mon.cur = u
               /\ met(objs[u], mon.price)]_vars

\* C30 - risk levels follow the direction: every registered position with
\* entryPrice > 0 has, when long, stopLoss = entry x 0.985 < entry < takeProfit =
\* entry x 1.06, and when short, takeProfit = entry x 0.94 < entry < stopLoss =
\* entry x 1.015; so at its own entry price neither its take-profit test nor its
\* stop-loss test holds.
C30_RiskLevelsFollowDirection ==
  \A u \in 1..Len(objs) :
     LET tr == objs[u]
         entry == tr.entryPrice
     IN  entry > 0 =>
           IF tr.direction = "long"
           THEN /\ tr.stopLoss = (entry * 985) \div 1000
                /\ tr.takeProfit = (entry * 106) \div 100
                /\ tr.stopLoss < entry /\ entry < tr.takeProfit
                /\ ~(entry >= tr.takeProfit) /\ ~(entry <= tr.stopLoss)
           ELSE /\ tr.takeProfit = (entry * 94) \div 100
                /\ tr.stopLoss = (entry * 1015) \div 1000
                /\ tr.takeProfit < entry /\ entry < tr.stopLoss
                /\ ~(entry <= tr.takeProfit) /\ ~(entry >= tr.stopLoss)

\* C31 - open cost: an accepted futures open debits the balance of its mode by
\* entryPrice x amount / leverage + entryFee, in real and in simulated mode
\* alike, and leaves walletBalance alone; an accepted spot open debits the
\* balance of its mode by entryPrice x amount + entryFee and walletBalance by
\* amount.
C31_OpenCost ==
  [][LET n == Len(objs)
     IN  /\ \A c \in Ctx :
               ( /\ call[c].pc = "fee"
                 /\ \/ call'[c].pc = "order"
                    \/ call'[c].pc = "none" /\ Len(objs') = n + 1 ) =>
                 LET f == call[c]
                     rate == IF call'[c].pc = "order" THEN call'[c].feeRate
                             ELSE objs'[n + 1].feeRate
                     notional == Mul(f.entryPrice, f.amount)
                     entryFee == Mul(notional, rate)
                     cost == IF f.instr = "futures"
                             THEN Div(notional, D(5)) + entryFee
                             ELSE notional + entryFee
                 IN  /\ IF f.type = "real"
                        THEN realBalance' = realBalance - cost /\ fakeBalance' = fakeBalance
                        ELSE fakeBalance' = fakeBalance - cost /\ realBalance' = realBalance
                     /\ walletBalance' =
                          IF f.instr = "spot" THEN walletBalance - f.amount ELSE walletBalance
         /\ ( /\ call' = call
              /\ Len(objs') = n + 1
              /\ acct'[n + 1].instr = "futures"
              /\ objs'[n + 1].type = "fake" ) =>
               LET tr == objs'[n + 1]
               IN  /\ fakeBalance' = fakeBalance
                        - (Div(Mul(tr.entryPrice, tr.amount), D(5)) + tr.entryFee)
                   /\ realBalance' = realBalance
                   /\ walletBalance' = walletBalance]_vars

\* C32 - bounded retry: a call retryOperation(op, r, d) invokes op at most r + 1
\* times; the wait before the (k+1)-th retry is d x 2^k ms; once an invocation
\* succeeds its value is the result and op is not invoked again; the error is
\* rethrown only after r + 1 failed invocations and it is the error of the last
\* one; and every call ends, by returning or by rethrowing.
C32_BoundedRetry ==
  /\ [](retry.pc # "idle" =>
          /\ retry.calls >= 1
          /\ retry.calls <= retry.r + 1
          /\ Len(retry.waits) = retry.calls - 1
          /\ \A k \in 1..Len(retry.waits) : retry.waits[k] = retry.d * Pow2(k - 1)
          /\ retry.pc = "returned" => retry.result = retry.calls
          /\ retry.pc = "thrown" => retry.calls = retry.r + 1 /\ retry.error = retry.calls)
  /\ [][retry.pc \in {"returned", "thrown"} => retry' = retry]_vars
  /\ (retry.pc = "calling" ~> retry.pc \in {"returned", "thrown"})

\* The default call, retryOperation(op): four failed invocations, waits of 1000,
\* 2000 and 4000 ms between them, and the fourth error rethrown.
C32_Witness ==
  /\ retry.pc = "thrown"
  /\ retry.r = 3 /\ retry.d = 1000
  /\ retry.calls = 4
  /\ retry.error = 4
  /\ retry.waits = <<1000, 2000, 4000>>

\* C33 - fee-lookup fallback: when the fee lookup of an open fails after its
\* retries, the open goes on with taker rate 0.001 (placeSpotTrade) or 0.0004
\* (placeFutureTrade): whether it is accepted depends on the balance only, and an
\* accepted open carries that rate and the entry fee computed with it. When the
\* lookup of a settlement fails, the settlement goes on with rate 0.0004: the net
\* PnL is gross - entryFee - price x amount x 0.0004 and the settlement moves on
\* to its reallocation or its history write.
C33_FeeLookupFallback ==
  [][LET n == Len(objs)
     IN  /\ \A c \in Ctx :
               (call[c].pc = "fee" /\ call'[c].pc # "fee") =>
                 LET f == call[c]
                     rate == IF f.instr = "spot" THEN D(1) \div 1000 ELSE 4
                     notional == Mul(f.entryPrice, f.amount)
                     entryFee == Mul(notional, rate)
                     cost == IF f.instr = "futures" /\ f.type = "real"
                             THEN Div(notional, D(5)) + entryFee
                             ELSE notional + entryFee
                     balance == IF f.type = "real" THEN realBalance ELSE fakeBalance
                 IN  IF cost > balance
                     THEN call'[c].pc = "none" /\ Len(objs') = n /\ ledger' = ledger
                     ELSE IF f.type = "real"
                     THEN /\ call'[c].pc = "order"
                          /\ call'[c].feeRate = rate
                          /\ realBalance' = realBalance - cost
                     ELSE /\ call'[c].pc = "none"
                          /\ Len(objs') = n + 1
                          /\ objs'[n + 1].feeRate = rate
                          /\ objs'[n + 1].entryFee = entryFee
                          /\ fakeBalance' = fakeBalance - cost
         /\ (mon.pc = "fee" /\ mon' # mon) =>
               LET tr == objs[mon.cur]
                   gross == IF tr.direction = "long"
                            THEN Mul(Mul(mon.price - tr.entryPrice, tr.amount), tr.leverage)
                            ELSE Mul(Mul(tr.entryPrice - mon.price, tr.amount), tr.leverage)
               IN  /\ mon'.pc \in {"placing", "write"}
                   /\ mon'.feeRate = 4
                   /\ mon'.netPnl = gross - tr.entryFee - Mul(Mul(mon.price, tr.amount), 4)]_vars

\* A simulated spot position was opened at the fallback rate 0.001 and has been
\* settled, with the fallback rate 0.0004 for its exit fee.
C33_Witness ==
  /\ Len(objs) = 1
  /\ acct[1].instr = "spot"
  /\ objs[1].type = "fake"
  /\ objs[1].feeRate = D(1) \div 1000
  /\ objs[1].entryFee = Mul(Mul(objs[1].entryPrice, objs[1].amount), D(1) \div 1000)
  /\ acct[1].closes = 1
  /\ Len(tradeHistory) = 1
  /\ tradeHistory[1].netPnl < 0

\* C34 - per-position error isolation: when the price fetch for the position
\* under visit fails after its retries, the step changes no trade object, no
\* entry of the active set, no ledger and no history record; the pass goes on
\* with the next entry of the Map, still holding the mutex, or, after the last
\* entry, ends as every pass does: the mutex is released, or handed to a queued
\* pass.
C34_ErrorIsolation ==
  [][(mon.pc = "price" /\ mon' # mon /\ mon'.pc # "fee" /\ mon'.price = 0) =>
        /\ objs' = objs
        /\ activeTrades' = activeTrades
        /\ ledger' = ledger
        /\ tradeHistory' = tradeHistory
        /\ orders' = orders
        /\ IF mon.idx < Len(activeTrades)
           THEN /\ mon'.pc = "price"
                /\ mon'.idx = mon.idx + 1
                /\ mon'.cur = activeTrades[mon.idx + 1].uid
                /\ mutex' = mutex
           ELSE /\ mon'.pc = IF mutex.waiting > 0 THEN "start" ELSE "idle"
                /\ mutex'.locked = (mutex.waiting > 0)]_vars

\* The pass is at the second of two open positions with no price fetched for the
\* first: the first position is as it was registered and nothing was settled.
C34_Witness ==
  /\ Len(activeTrades) = 2
  /\ mon.pc = "price" /\ mon.idx = 2 /\ mon.price = 0
  /\ mon.cur = activeTrades[2].uid
  /\ mutex.locked
  /\ LET tr == objs[activeTrades[1].uid]
     IN  tr.peakProfit = 0 /\ tr.peakPrice = tr.entryPrice /\ ~tr.isReallocated
  /\ tradeHistory = <<>>
  /\ \A u \in 1..Len(acct) : acct[u].closes = 0 /\ acct[u].reallocCalls = 0

\* The modes of the positions a step works on: the mode of the position it
\* registers, of the open it starts, resumes or rejects, and of the position the
\* monitor pass evaluates, reallocates or settles in it.
C35_StepModes ==
  {objs'[u].type : u \in (Len(objs) + 1)..Len(objs')}
    \cup {call[c].type : c \in {c \in Ctx : call[c].pc # "none" /\ call'[c] # call[c]}}
    \cup {call'[c].type : c \in {c \in Ctx : call'[c].pc # "none" /\ call'[c] # call[c]}}
    \cup (IF mon.pc \in {"price", "fee", "placing", "write"} /\ mon' # mon
          THEN {objs[mon.cur].type} ELSE {})

\* C35 - mode isolation: a step that opens, evaluates, reallocates or settles a
\* simulated position changes neither realBalance nor realPnL, a step that does
\* so for a real position changes neither fakeBalance nor fakePnL, and the
\* position opened by a reallocation has the mode of the position it replaces.
C35_ModeIsolation ==
  [][ /\ "fake" \in C35_StepModes => realBalance' = realBalance /\ realPnL' = realPnL
      /\ "real" \in C35_StepModes => fakeBalance' = fakeBalance /\ fakePnL' = fakePnL
      /\ \A u \in (Len(objs) + 1)..Len(objs') :
           acct'[u].via = "realloc" => objs'[u].type = objs[acct'[u].parent].type ]_vars

\* A real position was settled at a loss and reallocated, the real reallocation
\* was settled too, and the simulated ledger is as it was seeded.
C35_Witness ==
  /\ \E u \in 1..Len(objs) :
       /\ acct[u].via = "realloc" /\ objs[u].type = "real" /\ acct[u].closes = 1
       /\ objs[acct[u].parent].type = "real" /\ acct[acct[u].parent].closes = 1
  /\ realPnL # 0
  /\ fakePnL = 0
  /\ fakeBalanceInitialized /\ \E b \in BalanceInputs : fakeBalance = b

\* C36 - hedge atomicity, as claimed: the step in which checkPrices accepts a
\* signal leaves either both legs of the hedge in the active set or neither; of
\* the positions it opens, never exactly one is registered.
C36_HedgeAtomicity ==
  [][signals' = signals + 1 =>
        LET legs == {v \in 1..Len(objs') :
                        /\ acct'[v].via = "checkPrices"
                        /\ v \in Positions(activeTrades')
                        /\ v \notin Positions(activeTrades)}
        IN  Cardinality(legs) \in {0, 2}]_vars

\* C37 - one trading cycle at a time, as claimed: the step in which checkPrices
\* accepts a signal and opens positions is taken with the active set empty, so
\* no position opened by checkPrices is registered while a position of an
\* earlier signal is in the active set.
C37_OneCycleAtATime ==
  [][(signals' = signals + 1 /\ Len(objs') > Len(objs)) => activeTrades = <<>>]_vars

\* The sum of netPnl over the records of the history with the given mode.
RECURSIVE C38_SumNetPnl(_, _)
C38_SumNetPnl(h, type) ==
  IF h = <<>> THEN 0
  ELSE (IF Head(h).type = type THEN Head(h).netPnl ELSE 0) + C38_SumNetPnl(Tail(h), type)

\* The step writes the settled-trade record of position u and updates the
\* balance and the PnL counter of its mode with the closure's netPnl.
C38_RecordedAndCredited(u) ==
  /\ mon.pc = "write" /\ mon.cur = u
  /\ tradeHistory' = Append(tradeHistory, TradeRecord(objs[u], mon.netPnl))
  /\ IF objs[u].type = "real"
     THEN /\ realPnL' = realPnL + mon.netPnl
          /\ realBalance' = realBalance + mon.netPnl + objs[u].amount
     ELSE /\ fakePnL' = fakePnL + mon.netPnl
          /\ fakeBalance' = fakeBalance + mon.netPnl + objs[u].amount

\* C38 - ledger and history stay consistent, as claimed: a position leaves the
\* active set in a step if and only if that step writes its record to the trade
\* history and updates its mode's balance and PnL counter with its netPnl; and
\* in every state fakePnL (realPnL) is the sum of netPnl over the recorded
\* simulated (real) trades.
C38_LedgerMatchesHistory ==
  /\ [][\A u \in 1..Len(objs') :
          (u \in Positions(activeTrades) /\ u \notin Positions(activeTrades'))
            <=> (u <= Len(objs) /\ C38_RecordedAndCredited(u))]_vars
  /\ [](/\ fakePnL = C38_SumNetPnl(tradeHistory, "fake")
        /\ realPnL = C38_SumNetPnl(tradeHistory, "real"))

====
